---- MODULE Spec2Model ----
(***************************************************************************)
(* Model of the decoder combinator library of src/src/index.ts (the        *)
(* current module, lines 1-358): configure, createDecoder and the          *)
(* built-in decoders boolean, date, literalOf, number, string, the         *)
(* combinators array, object and pipe, and the pass-through type.          *)
(*                                                                         *)
(* A client session is the state machine: it derives decoder sets with    *)
(* configure, builds a decoder with the constructors, and calls it on a    *)
(* raw value.  A call is evaluated to its outcome (returned value or       *)
(* raised error) together with the trace of everything it invoked.         *)
(***************************************************************************)
EXTENDS Integers, Sequences, FiniteSets, TLC

VARIABLES
  sets,   \* the Config objects passed to configure, in creation order
  dec,    \* the decoder the session has built last
  out,    \* the outcome of the last decode call
  tasks   \* the frames of two calls of dec that run step by step

vars == <<sets, dec, out, tasks>>

(***************************************************************************)
(* Bounds.                                                                 *)
(***************************************************************************)
MaxSets  == 2   \* decoder sets, the exported default set included
MaxLen   == 2   \* length of a raw array

(***************************************************************************)
(* JavaScript values.  A number is a double, kept as a sign, the decimal   *)
(* digits of a mantissa and a power of ten, in lowest terms: the shortest  *)
(* decimal that rounds to the double, which is the one its toString        *)
(* prints, so that 1.5, 1e21, 5e-324 and the time value of a Date are      *)
(* values like any other.                                                  *)
(***************************************************************************)
Undefined == [t |-> "undefined"]
Null      == [t |-> "null"]
NaN       == [t |-> "NaN"]
Bool(b)   == [t |-> "boolean", b |-> b]
Str(s)    == [t |-> "string", s |-> s]
Arr(xs)   == [t |-> "array", items |-> xs]
Obj(f)    == [t |-> "object", fields |-> f]

\* Infinity and -Infinity
Infinity(neg) == [t |-> "infinity", neg |-> neg]

\* a built-in function, the member `name` of the prototype of `of`
Fn(of, name) == [t |-> "function", of |-> of, name |-> name]

\* Object.prototype, Array.prototype, Date.prototype
Proto(of) == [t |-> "prototype", of |-> of]

EmptyFields == [k \in {} |-> Undefined]

Abs(n) == IF n < 0 THEN 0 - n ELSE n

IsDigit(c) == \E k \in 0..9 : ToString(k) = c
DigitVal(c) == CHOOSE k \in 0..9 : ToString(k) = c

AllDigits(s) == \A i \in 1..Len(s) : IsDigit(SubSeq(s, i, i))

RECURSIVE DigitsVal(_, _)
DigitsVal(s, acc) ==
  IF Len(s) = 0 THEN acc
  ELSE DigitsVal(Tail(s), 10 * acc + DigitVal(Head(s)))

RECURSIVE Zeros(_)
Zeros(n) == IF n <= 0 THEN "" ELSE "0" \o Zeros(n - 1)

\* the number (-1)^neg * digits * 10^e in lowest terms; -0 is 0
RECURSIVE Dec(_, _, _)
Dec(neg, digits, e) ==
  IF Len(digits) > 1 /\ Head(digits) = "0"
  THEN Dec(neg, Tail(digits), e)
  ELSE IF Len(digits) > 1 /\ SubSeq(digits, Len(digits), Len(digits)) = "0"
  THEN Dec(neg, SubSeq(digits, 1, Len(digits) - 1), e + 1)
  ELSE IF digits = "0" \/ digits = ""
  THEN [t |-> "number", neg |-> FALSE, digits |-> "0", e |-> 0]
  ELSE [t |-> "number", neg |-> neg, digits |-> digits, e |-> e]

\* the integer n
Num(n) == Dec(n < 0, ToString(Abs(n)), 0)

(***************************************************************************)
(* new Date(year, monthIndex, day): the arguments are normalised, a year   *)
(* from 0 to 99 is a year of the 1900s, and the Date is the local          *)
(* midnight of that day; the local time zone of the model is UTC.          *)
(***************************************************************************)
\* days from 1970-01-01 to the day d of month m (1..12) of year y
DaysFromCivil(y, m, d) ==
  LET yy  == IF m <= 2 THEN y - 1 ELSE y
      era == yy \div 400
      yoe == yy - era * 400
      mp  == IF m > 2 THEN m - 3 ELSE m + 9
      doy == ((153 * mp + 2) \div 5) + d - 1
      doe == yoe * 365 + (yoe \div 4) - (yoe \div 100) + doy
  IN era * 146097 + doe - 719468

\* the year, month (1..12) and day that lie z days after 1970-01-01
CivilFromDays(z) ==
  LET zz  == z + 719468
      era == zz \div 146097
      doe == zz - era * 146097
      yoe == (doe - (doe \div 1460) + (doe \div 36524)
                - (doe \div 146096)) \div 365
      doy == doe - (365 * yoe + (yoe \div 4) - (yoe \div 100))
      mp  == (5 * doy + 2) \div 153
      d   == doy - ((153 * mp + 2) \div 5) + 1
      m   == IF mp < 10 THEN mp + 3 ELSE mp - 9
      y   == yoe + era * 400
  IN [year |-> IF m <= 2 THEN y + 1 ELSE y, month |-> m, day |-> d]

DateOf(y, m, d) ==
  LET full   == IF y >= 0 /\ y <= 99 THEN 1900 + y ELSE y
      months == full * 12 + m
      days   == DaysFromCivil(months \div 12, (months % 12) + 1, 1) + d - 1
      c      == CivilFromDays(days)
  IN [t |-> "date", year |-> c.year, month |-> c.month - 1, day |-> c.day]

\* date.getTime(): the milliseconds from 1970-01-01T00:00:00Z
TimeValue(v) ==
  LET days == DaysFromCivil(v.year, v.month + 1, v.day)
      a    == Abs(days) \div 1000
      b    == Abs(days) % 1000
      hi   == a * 864 + ((b * 864) \div 1000)
      lo   == (b * 864) % 1000
      pad  == IF lo < 10 THEN "00" ELSE IF lo < 100 THEN "0" ELSE ""
  IN Dec(days < 0, ToString(hi) \o pad \o ToString(lo), 5)

WeekDays == <<"Sun", "Mon", "Tue", "Wed", "Thu", "Fri", "Sat">>

MonthNames ==
  <<"Jan", "Feb", "Mar", "Apr", "May", "Jun",
    "Jul", "Aug", "Sep", "Oct", "Nov", "Dec">>

\* date.toString()
DateToString(v) ==
  LET days == DaysFromCivil(v.year, v.month + 1, v.day)
      year == ToString(v.year)
  IN WeekDays[((days + 4) % 7) + 1] \o " " \o MonthNames[v.month + 1] \o " "
       \o (IF v.day < 10 THEN "0" ELSE "") \o ToString(v.day) \o " "
       \o Zeros(4 - Len(year)) \o year
       \o " 00:00:00 GMT+0000 (Coordinated Universal Time)"

(***************************************************************************)
(* typeof, Array.isArray and property lookup.                              *)
(***************************************************************************)
\* typeof v
TypeOf(v) ==
  CASE v.t = "undefined" -> "undefined"
    [] v.t = "boolean"   -> "boolean"
    [] v.t = "number"    -> "number"
    [] v.t = "NaN"       -> "number"
    [] v.t = "infinity"  -> "number"
    [] v.t = "string"    -> "string"
    [] v.t = "function"  -> "function"
    [] OTHER             -> "object"

\* Array.isArray(v); Array.prototype is an array
IsArray(v) == v.t = "array" \/ v = Proto("Array")

\* the function-valued members of Object.prototype
ObjectMembers ==
  {"constructor", "__defineGetter__", "__defineSetter__", "hasOwnProperty",
   "__lookupGetter__", "__lookupSetter__", "isPrototypeOf",
   "propertyIsEnumerable", "toString", "valueOf", "toLocaleString"}

\* the function-valued members of Array.prototype
ArrayMembers ==
  {"constructor", "at", "concat", "copyWithin", "fill", "find", "findIndex",
   "findLast", "findLastIndex", "lastIndexOf", "pop", "push", "reverse",
   "shift", "unshift", "slice", "sort", "splice", "includes", "indexOf",
   "join", "keys", "entries", "values", "forEach", "filter", "flat",
   "flatMap", "map", "every", "some", "reduce", "reduceRight",
   "toLocaleString", "toString", "toReversed", "toSorted", "toSpliced",
   "with"}

\* the function-valued members of Date.prototype
DateMembers ==
  {"constructor", "toString", "toDateString", "toTimeString", "toISOString",
   "toUTCString", "toGMTString", "getDate", "setDate", "getDay",
   "getFullYear", "setFullYear", "getHours", "setHours", "getMilliseconds",
   "setMilliseconds", "getMinutes", "setMinutes", "getMonth", "setMonth",
   "getSeconds", "setSeconds", "getTime", "setTime", "getTimezoneOffset",
   "getUTCDate", "setUTCDate", "getUTCDay", "getUTCFullYear",
   "setUTCFullYear", "getUTCHours", "setUTCHours", "getUTCMilliseconds",
   "setUTCMilliseconds", "getUTCMinutes", "setUTCMinutes", "getUTCMonth",
   "setUTCMonth", "getUTCSeconds", "setUTCSeconds", "valueOf", "getYear",
   "setYear", "toJSON", "toLocaleString", "toLocaleDateString",
   "toLocaleTimeString"}

Members(of) ==
  CASE of = "Object" -> ObjectMembers
    [] of = "Array"  -> ArrayMembers
    [] of = "Date"   -> DateMembers

\* the member `key` of the prototype of `of`: the constructor is the
\* function named after the prototype, toGMTString is toUTCString
Member(of, key) ==
  CASE key = "constructor" -> Fn(of, of)
    [] key = "toGMTString" -> Fn(of, "toUTCString")
    [] OTHER               -> Fn(of, key)

\* the property `key` of a value whose own properties do not include it
\* and whose prototype is the prototype of `of`
Inherited(of, key) ==
  IF key = "__proto__" THEN Proto(of)
  ELSE IF key \in Members(of) THEN Member(of, key)
  ELSE IF key \in ObjectMembers THEN Member("Object", key)
  ELSE Undefined

\* raw[key] for a plain object: an own property, or else a member the
\* object inherits from Object.prototype
GetProp(raw, key) ==
  IF key \in DOMAIN raw.fields
  THEN raw.fields[key]
  ELSE Inherited("Object", key)

(***************************************************************************)
(* Errors, outcomes and the calls of built-in functions.                   *)
(***************************************************************************)
\* new Error(message), and the TypeError the engine raises
Error(message) == [name |-> "Error", message |-> message]
TypeError(message) == [name |-> "TypeError", message |-> message]

\* the outcome of an expression: its value, or the error it raises
Value(v) == [st |-> "return", val |-> v]
Raise(err) == [st |-> "throw", err |-> err]

\* undefined, null, a boolean, a number or a string
IsPrimitive(v) ==
  v.t \in {"undefined", "null", "NaN", "boolean", "number", "infinity",
           "string"}

\* the members of Date.prototype that read the time value of the Date
DateGetters ==
  {"getDate", "getDay", "getFullYear", "getHours", "getMilliseconds",
   "getMinutes", "getMonth", "getSeconds", "getTime", "getTimezoneOffset",
   "getUTCDate", "getUTCDay", "getUTCFullYear", "getUTCHours",
   "getUTCMilliseconds", "getUTCMinutes", "getUTCMonth", "getUTCSeconds",
   "valueOf"}

\* the members of Array.prototype that call their first argument
ArrayCallers ==
  {"every", "filter", "find", "findIndex", "findLast", "findLastIndex",
   "forEach", "map", "reduce", "reduceRight", "some"}

\* what an error message calls a plain object: its constructor when its
\* toString is that of Object.prototype
Receiver(this) ==
  IF /\ GetProp(this, "toString") = Fn("Object", "toString")
     /\ GetProp(this, "constructor").t = "function"
  THEN "#<" \o GetProp(this, "constructor").name \o ">"
  ELSE "[object Object]"

\* the member of `this` a built-in function calls in its turn:
\* Object.prototype.toLocaleString calls this.toString(), and
\* Array.prototype.toString calls this.join()
Handed(f, this) ==
  IF f = Fn("Object", "toLocaleString") THEN GetProp(this, "toString")
  ELSE IF f = Fn("Array", "toString") THEN GetProp(this, "join")
  ELSE Undefined

\* the calls that start with f.call(this) never end: the two built-in
\* functions that call a member of `this` call each other or themselves
Loops(f, this) ==
  /\ Handed(f, this).t = "function"
  /\ Handed(Handed(f, this), this).t = "function"
  /\ Handed(Handed(Handed(f, this), this), this).t = "function"

\* f.call(this): a built-in function called without arguments on a plain
\* object, which the conversion of the object to a primitive does with its
\* toString and valueOf.  The members of Array.prototype are those of an
\* object without a length; the call has no outcome in the model for a
\* member that writes to the object, reads the clock, calls the conversion
\* again or returns an iterator, and for Object.prototype.toLocaleString
\* on an object whose toString is no function
RECURSIVE Apply(_, _)
Apply(f, this) ==
  IF Loops(f, this)
  THEN Raise([name |-> "RangeError",
              message |-> "Maximum call stack size exceeded"])
  ELSE IF Handed(f, this).t = "function"
  THEN Apply(Handed(f, this), this)
  ELSE
  CASE f = Fn("Object", "toString") -> Value(Str("[object Object]"))
    [] f = Fn("Object", "valueOf") -> Value(this)
    [] f.of = "Object" /\ f.name \in {"hasOwnProperty", "propertyIsEnumerable"}
         -> Value(Bool("undefined" \in DOMAIN this.fields))
    [] f = Fn("Object", "isPrototypeOf") -> Value(Bool(FALSE))
    [] f.of = "Object" /\ f.name \in {"__lookupGetter__", "__lookupSetter__"}
         -> Value(Undefined)
    [] f.of = "Object" /\ f.name \in {"__defineGetter__", "__defineSetter__"}
         -> Raise(TypeError("Object.prototype." \o f.name
                              \o ": Expecting function"))
    [] f = Fn("Object", "Object") -> Value(Obj(EmptyFields))
    [] f = Fn("Array", "Array") -> Value(Arr(<<>>))
    [] f = Fn("Array", "toString") /\ GetProp(this, "join").t # "function"
         -> Value(Str("[object Object]"))
    [] /\ f.of = "Array" /\ "length" \notin DOMAIN this.fields
       /\ f.name \in {"join", "toLocaleString"}
         -> Value(Str(""))
    [] /\ f.of = "Array" /\ "length" \notin DOMAIN this.fields
       /\ f.name = "at"
         -> Value(Undefined)
    [] /\ f.of = "Array" /\ "length" \notin DOMAIN this.fields
       /\ f.name = "includes"
         -> Value(Bool(FALSE))
    [] /\ f.of = "Array" /\ "length" \notin DOMAIN this.fields
       /\ f.name \in {"indexOf", "lastIndexOf"}
         -> Value(Num(-1))
    [] /\ f.of = "Array" /\ "length" \notin DOMAIN this.fields
       /\ f.name = "concat"
         -> Value(Arr(<<this>>))
    [] /\ f.of = "Array" /\ "length" \notin DOMAIN this.fields
       /\ f.name \in {"slice", "flat", "toReversed", "toSorted", "toSpliced"}
         -> Value(Arr(<<>>))
    [] /\ f.of = "Array" /\ "length" \notin DOMAIN this.fields
       /\ f.name \in {"copyWithin", "fill", "reverse", "sort"}
         -> Value(this)
    [] /\ f.of = "Array" /\ "length" \notin DOMAIN this.fields
       /\ f.name \in ArrayCallers
         -> Raise(TypeError("undefined is not a function"))
    [] /\ f.of = "Array" /\ "length" \notin DOMAIN this.fields
       /\ f.name = "with"
         -> Raise([name |-> "RangeError",
                   message |-> "Invalid index : undefined"])
    [] /\ f.of = "Array" /\ "length" \notin DOMAIN this.fields
       /\ f.name = "flatMap"
         -> Raise(TypeError("flatMap mapper function is not callable"))
    [] f.of = "Date" /\ f.name \in DateGetters
         -> Raise(TypeError("this is not a Date object."))
    [] f.of = "Date" /\ f.name \in (DateMembers \ DateGetters) \ {"toJSON"}
         -> Raise(TypeError("Method Date.prototype." \o f.name
                              \o " called on incompatible receiver "
                              \o Receiver(this)))

\* the outcome of a method of the conversion: that of the call, or the
\* object itself for what cannot be called
Invoke(f, this) == IF f.t = "function" THEN Apply(f, this) ELSE Value(this)

\* OrdinaryToPrimitive: the methods named are tried in turn from the i-th
\* on; the conversion is over with the first primitive one returns or the
\* first error one raises, and raises a TypeError when there is neither
RECURSIVE Tried(_, _, _)
Settled(this, names, i, r) ==
  IF r.st = "throw" \/ IsPrimitive(r.val) THEN r
  ELSE Tried(this, names, i + 1)

Tried(this, names, i) ==
  IF i > Len(names)
  THEN Raise(TypeError("Cannot convert object to primitive value"))
  ELSE Settled(this, names, i, Invoke(GetProp(this, names[i]), this))

\* toString and then valueOf for a string, valueOf and then toString for a
\* number
OrdinaryToPrimitive(v, hint) ==
  Tried(v, IF hint = "string" THEN <<"toString", "valueOf">>
           ELSE <<"valueOf", "toString">>, 1)

(***************************************************************************)
(* String(v) and `${v}`.                                                   *)
(***************************************************************************)
\* Number.prototype.toString of a finite number
NumberToString(v) ==
  LET d == v.digits
      k == Len(d)
      p == k + v.e
      sign == IF v.neg THEN "-" ELSE ""
  IN IF d = "0" THEN "0"
     ELSE IF k <= p /\ p <= 21 THEN sign \o d \o Zeros(p - k)
     ELSE IF 0 < p /\ p <= 21
          THEN sign \o SubSeq(d, 1, p) \o "." \o SubSeq(d, p + 1, k)
     ELSE IF -6 < p /\ p <= 0 THEN sign \o "0." \o Zeros(0 - p) \o d
     ELSE sign \o SubSeq(d, 1, 1)
            \o (IF k > 1 THEN "." \o SubSeq(d, 2, k) ELSE "")
            \o "e" \o (IF p - 1 >= 0 THEN "+" ELSE "-")
            \o ToString(Abs(p - 1))

\* String(v) for a primitive v
PrimitiveToString(v) ==
  CASE v.t = "undefined" -> "undefined"
    [] v.t = "null"      -> "null"
    [] v.t = "NaN"       -> "NaN"
    [] v.t = "boolean"   -> IF v.b THEN "true" ELSE "false"
    [] v.t = "number"    -> NumberToString(v)
    [] v.t = "infinity"  -> IF v.neg THEN "-Infinity" ELSE "Infinity"
    [] v.t = "string"    -> v.s

RECURSIVE ToPrimitive(_, _)
RECURSIVE Join(_, _)

\* Array.prototype.join(','): null and undefined elements print as ''
Join(xs, i) ==
  IF i > Len(xs) THEN ""
  ELSE (IF xs[i].t \in {"undefined", "null"} THEN ""
        ELSE PrimitiveToString(ToPrimitive(xs[i], "string").val))
       \o (IF i < Len(xs) THEN "," ELSE "")
       \o Join(xs, i + 1)

\* the elements join raises on
Raising(xs) ==
  {i \in 1..Len(xs) : /\ xs[i].t \notin {"undefined", "null"}
                      /\ ToPrimitive(xs[i], "string").st = "throw"}

\* ToPrimitive(v, hint): the primitive that String, a template and a
\* regular expression (hint "string") or Number (hint "number") convert,
\* or the error the conversion raises.  An array is joined under either
\* hint, and raises what the first of its elements to raise does; the Date
\* of the current time has no primitive in the model
ToPrimitive(v, hint) ==
  CASE IsPrimitive(v) -> Value(v)
    [] v.t = "array" ->
         IF Raising(v.items) = {} THEN Value(Str(Join(v.items, 1)))
         ELSE ToPrimitive(v.items[CHOOSE i \in Raising(v.items) :
                                    \A j \in Raising(v.items) : i <= j],
                          "string")
    [] v.t = "object" -> OrdinaryToPrimitive(v, hint)
    [] v.t = "date" /\ "year" \in DOMAIN v ->
         Value(IF hint = "string" THEN Str(DateToString(v))
               ELSE TimeValue(v))
    [] v.t = "function" ->
         Value(Str("function " \o v.name \o "() { [native code] }"))
    [] v = Proto("Object") -> Value(Str("[object Object]"))
    [] v = Proto("Array")  -> Value(Str(""))
    [] v = Proto("Date") ->
         Raise(TypeError(IF hint = "string"
                         THEN "Method Date.prototype.toString called on "
                                \o "incompatible receiver [object Object]"
                         ELSE "this is not a Date object."))

\* the string of the primitive of a conversion, or the error it raised
StringOf(p) ==
  IF p.st = "throw" THEN p ELSE Value(Str(PrimitiveToString(p.val)))

\* String(v) and `${v}`: the outcome
String(v) == StringOf(ToPrimitive(v, "string"))

\* String(v) for a value the conversion does not raise on
ToStr(v) == String(v).val.s

(***************************************************************************)
(* Number(v).                                                              *)
(***************************************************************************)
\* the white space Number strips, of the characters a string of the model
\* can hold: the space, the tabs, the line and form feeds, the carriage
\* return, the no-break space, the ogham space mark and the byte order mark
WhiteSpace ==
  {" ", "\t", "\n", "\r", "\f", "", " ", " ", "﻿"}

RECURSIVE TrimLeft(_)
TrimLeft(s) ==
  IF Len(s) > 0 /\ SubSeq(s, 1, 1) \in WhiteSpace
  THEN TrimLeft(SubSeq(s, 2, Len(s)))
  ELSE s

RECURSIVE TrimRight(_)
TrimRight(s) ==
  IF Len(s) > 0 /\ SubSeq(s, Len(s), Len(s)) \in WhiteSpace
  THEN TrimRight(SubSeq(s, 1, Len(s) - 1))
  ELSE s

\* the first position of s that holds one of the characters, or 0
FirstOf(s, chars) ==
  IF \E i \in 1..Len(s) : SubSeq(s, i, i) \in chars
  THEN CHOOSE i \in 1..Len(s) :
         /\ SubSeq(s, i, i) \in chars
         /\ \A j \in 1..(i - 1) : SubSeq(s, j, j) \notin chars
  ELSE 0

RadixDigits == "0123456789abcdef"
UpperDigits == "0123456789ABCDEF"

\* the value of the digit c in the base, or -1
RadixDigit(c, base) ==
  IF \E k \in 1..base :
       c = SubSeq(RadixDigits, k, k) \/ c = SubSeq(UpperDigits, k, k)
  THEN (CHOOSE k \in 1..base :
          c = SubSeq(RadixDigits, k, k) \/ c = SubSeq(UpperDigits, k, k)) - 1
  ELSE -1

AllRadixDigits(s, base) ==
  \A i \in 1..Len(s) : RadixDigit(SubSeq(s, i, i), base) >= 0

(***************************************************************************)
(* Natural numbers of any size, for the rounding of a numeral to a double. *)
(* A natural is the sequence of its digits in base 10000, the least        *)
(* significant first and the most significant not 0; zero is <<>>.  The    *)
(* digits are worked on by halves, which keeps the evaluation shallow.     *)
(***************************************************************************)
Base == 10000

RECURSIVE Power(_, _)
Power(b, n) == IF n <= 0 THEN 1 ELSE b * Power(b, n - 1)

\* without the zeros at the most significant end
Trimmed(a) ==
  SubSeq(a, 1, Cardinality({i \in 1..Len(a) :
                              \E j \in i..Len(a) : a[j] # 0}))

\* the natural n, an integer below 10^12
Small(n) ==
  Trimmed(<<n % Base, (n \div Base) % Base, n \div (Base * Base)>>)

\* the natural written with the decimal digits of s
RECURSIVE Natural(_)
Natural(s) ==
  IF Len(s) <= 4
  THEN Small(DigitsVal(s, 0))
  ELSE Trimmed(<<DigitsVal(SubSeq(s, Len(s) - 3, Len(s)), 0)>>
                 \o Natural(SubSeq(s, 1, Len(s) - 4)))

\* the decimal digits of the i least significant digits of a
RECURSIVE Decimal(_, _)
Decimal(a, i) ==
  IF i = 0 THEN ""
  ELSE (IF i = Len(a) THEN "" ELSE Zeros(4 - Len(ToString(a[i]))))
         \o ToString(a[i]) \o Decimal(a, i - 1)

\* the number of decimal digits of a
Length(a) ==
  IF Len(a) = 0 THEN 0 ELSE 4 * (Len(a) - 1) + Len(ToString(a[Len(a)]))

\* the digit of a at i, 0 beyond the most significant
Digit(a, i) == IF i <= Len(a) THEN a[i] ELSE 0

\* the digits lo to hi of a * k + carry, and the carry out of them
RECURSIVE TimesPart(_, _, _, _, _)
TimesPart(a, lo, hi, k, carry) ==
  IF lo = hi
  THEN [d |-> <<(a[lo] * k + carry) % Base>>,
        c |-> (a[lo] * k + carry) \div Base]
  ELSE LET low  == TimesPart(a, lo, (lo + hi) \div 2, k, carry)
           high == TimesPart(a, ((lo + hi) \div 2) + 1, hi, k, low.c)
       IN [d |-> low.d \o high.d, c |-> high.c]

\* the digits with the carry out of them
Carried(p) == p.d \o Small(p.c)

\* a * k + carry, for k from 1 to 2^16 and a carry below 10^4
Times(a, k, carry) ==
  IF Len(a) = 0 THEN Small(carry)
  ELSE Carried(TimesPart(a, 1, Len(a), k, carry))

\* the digits lo to hi of a + b + carry, and the carry out of them
RECURSIVE PlusPart(_, _, _, _, _)
PlusPart(a, b, lo, hi, carry) ==
  IF lo = hi
  THEN [d |-> <<(Digit(a, lo) + Digit(b, lo) + carry) % Base>>,
        c |-> (Digit(a, lo) + Digit(b, lo) + carry) \div Base]
  ELSE LET low  == PlusPart(a, b, lo, (lo + hi) \div 2, carry)
           high == PlusPart(a, b, ((lo + hi) \div 2) + 1, hi, low.c)
       IN [d |-> low.d \o high.d, c |-> high.c]

\* a + b, for a that is not 0
Plus(a, b) ==
  Carried(PlusPart(a, b, 1, IF Len(a) > Len(b) THEN Len(a) ELSE Len(b), 0))

\* the digits lo to hi of a - b - borrow, and the borrow out of them
RECURSIVE MinusPart(_, _, _, _, _)
MinusPart(a, b, lo, hi, borrow) ==
  IF lo = hi
  THEN [d |-> <<(a[lo] - Digit(b, lo) - borrow + Base) % Base>>,
        c |-> IF a[lo] - Digit(b, lo) - borrow < 0 THEN 1 ELSE 0]
  ELSE LET low  == MinusPart(a, b, lo, (lo + hi) \div 2, borrow)
           high == MinusPart(a, b, ((lo + hi) \div 2) + 1, hi, low.c)
       IN [d |-> low.d \o high.d, c |-> high.c]

\* a - b, for a >= b
Minus(a, b) ==
  IF Len(a) = 0 THEN <<>>
  ELSE Trimmed(MinusPart(a, b, 1, Len(a), 0).d)

\* a < b
Less(a, b) ==
  \/ Len(a) < Len(b)
  \/ /\ Len(a) = Len(b)
     /\ \E i \in 1..Len(a) :
          a[i] < b[i] /\ \A j \in (i + 1)..Len(a) : a[j] = b[j]

\* the digits hi down to lo of the quotient by k of a, with `rem` carried
\* in from the digits above hi, and the remainder carried out
RECURSIVE OverPart(_, _, _, _, _)
OverPart(a, lo, hi, k, rem) ==
  IF lo = hi
  THEN [d |-> <<(rem * Base + a[lo]) \div k>>,
        c |-> (rem * Base + a[lo]) % k]
  ELSE LET high == OverPart(a, ((lo + hi) \div 2) + 1, hi, k, rem)
           low  == OverPart(a, lo, (lo + hi) \div 2, k, high.c)
       IN [d |-> high.d \o low.d, c |-> low.c]

\* the quotient of the digits p.d, the most significant first, and the
\* remainder p.c
Quotient(p) ==
  [q |-> Trimmed([i \in 1..Len(p.d) |-> p.d[Len(p.d) + 1 - i]]), r |-> p.c]

\* the quotient q and the remainder r of a by k, for k from 1 to 2^16
Over(a, k) ==
  IF Len(a) = 0 THEN [q |-> <<>>, r |-> 0]
  ELSE Quotient(OverPart(a, 1, Len(a), k, 0))

\* a * 2^n
RECURSIVE TimesTwo(_, _)
TimesTwo(a, n) ==
  IF Len(a) = 0 THEN <<>>
  ELSE IF n <= 16 THEN Times(a, Power(2, n), 0)
  ELSE TimesTwo(TimesTwo(a, n \div 2), n - (n \div 2))

\* a * 5^n
RECURSIVE TimesFive(_, _)
TimesFive(a, n) ==
  IF Len(a) = 0 THEN <<>>
  ELSE IF n <= 6 THEN Times(a, Power(5, n), 0)
  ELSE TimesFive(TimesFive(a, n \div 2), n - (n \div 2))

\* a * 10^n
TimesTen(a, n) ==
  IF Len(a) = 0 THEN <<>>
  ELSE [i \in 1..(n \div 4) |-> 0] \o Times(a, Power(10, n % 4), 0)

\* a quotient and whether a remainder was lost, by the division or before
Lost(d, lost) == [n |-> d.q, lost |-> lost \/ d.r # 0]

\* the quotient of a by 10^n, and whether the division lost a remainder
OverTen(a, n) ==
  Lost(Over(SubSeq(a, (n \div 4) + 1, Len(a)), Power(10, n % 4)),
       \E i \in 1..(n \div 4) : i <= Len(a) /\ a[i] # 0)

\* x.n halved `count` times, and whether a 1 was lost by it or before
RECURSIVE Halved(_, _)
Halved(x, count) ==
  IF Len(x.n) = 0 THEN x
  ELSE IF count <= 16 THEN Lost(Over(x.n, Power(2, count)), x.lost)
  ELSE Halved(Halved(x, count \div 2), count - (count \div 2))

\* 2^52 = 4503599627370496, 2^53 and 2^54
TwoTo52 == <<496, 2737, 5996, 4503>>
TwoTo53 == <<992, 5474, 1992, 9007>>
TwoTo54 == <<1984, 948, 3985, 8014, 1>>

\* x.n halved until it is below 2^54: what is left, the number of halvings
\* and whether a 1 was lost
RECURSIVE Narrowed(_, _)
Narrowed(x, shift) ==
  IF Less(x.n, TwoTo54) THEN [n |-> x.n, shift |-> shift, lost |-> x.lost]
  ELSE Narrowed(Halved(x, 1), shift + 1)

\* the halvings made at once: `least`, or more for a natural of many
\* digits, as one of n digits is 2^(13.2877 * (n - 1)) or more and is
\* to stay at 2^53 or more
AtOnce(a, least) ==
  IF ((132877 * (Len(a) - 1)) \div 10000) - 53 > least
  THEN ((132877 * (Len(a) - 1)) \div 10000) - 53
  ELSE least

\* x.n halved `least` times or more, until it is below 2^54
Narrow(x, least) ==
  Narrowed(Halved(x, AtOnce(x.n, least)), AtOnce(x.n, least))

(***************************************************************************)
(* The double nearest to a decimal, and the digits Number.prototype        *)
(* .toString prints for it.  A double is m * 2^q with m below 2^53 and q   *)
(* from -1074 to 971; a tie goes to the even m.                            *)
(***************************************************************************)
\* the mantissa m and the exponent q, with m * 2^q written with m below
\* 2^53
Normal(m, q) ==
  IF m = TwoTo53 THEN [m |-> TwoTo52, q |-> q + 1] ELSE [m |-> m, q |-> q]

\* the double nearest to h.q + h.r / 2 and what was lost, in units of 2^q
Even(h, lost, q) ==
  Normal(IF h.r = 1 /\ (lost \/ (Len(h.q) > 0 /\ h.q[1] % 2 = 1))
         THEN Plus(<<1>>, h.q) ELSE h.q,
         q)

\* the double nearest to the number whose bits down to 2^(r.shift - scale)
\* are those of r.n, r.lost telling of a 1 below them; r.n holds 54 bits,
\* or fewer with the last at 2^(-1075)
Nearest(r, scale) == Even(Over(r.n, 2), r.lost, r.shift - scale + 1)

\* the decimals f * 10^t and (f + 1) * 10^t around x
Around(f, t) ==
  [below |-> TimesTen(f, t), above |-> TimesTen(Plus(f, <<1>>), t),
   s |-> f, next |-> Plus(f, <<1>>)]

\* the shortest of the decimals s * 10^t that lie between lo and hi, or at
\* them when `closed`, with t counted down: the one nearest to x, and of
\* two as near the even one
RECURSIVE Shortest(_, _, _, _, _)
Nearer(x, lo, hi, closed, t, c) ==
  LET in1 == Less(lo, c.below) \/ (closed /\ lo = c.below)
      in2 == Less(c.above, hi) \/ (closed /\ c.above = hi)
      d1  == Minus(x, c.below)
      d2  == Minus(c.above, x)
  IN IF in1 /\ (~in2 \/ Less(d1, d2) \/ (d1 = d2 /\ c.s[1] % 2 = 0))
     THEN [s |-> c.s, t |-> t]
     ELSE IF in2 THEN [s |-> c.next, t |-> t]
     ELSE Shortest(x, lo, hi, closed, t - 1)

Shortest(x, lo, hi, closed, t) ==
  IF t <= 0 THEN [s |-> x, t |-> 0]
  ELSE Nearer(x, lo, hi, closed, t, Around(OverTen(x, t).n, t))

\* the number found, counted in units of 10^(-scale)
Digits(found, scale) ==
  Dec(FALSE, Decimal(found.s, Len(found.s)), found.t - scale)

\* the shortest decimal between the double x and its neighbours: the
\* doubles next to it lie two units and two units away, the one below one
\* unit away when m is 2^52
Between(m, q, x, unit) ==
  Shortest(x,
           Minus(x, IF m = TwoTo52 /\ q > -1074 THEN unit
                    ELSE Times(unit, 2, 0)),
           Plus(x, Times(unit, 2, 0)), m[1] % 2 = 0, Length(x) - 1)

\* the decimal of the double m * 2^q: the shortest that rounds to it.  The
\* numbers are counted in units of 2^(q - 2), which from q = 1 down is
\* 5^(2 - q) * 10^(q - 2)
Printed(m, q) ==
  IF q >= 2
  THEN Digits(Between(m, q, TimesTwo(m, q), TimesTwo(<<1>>, q - 2)), 0)
  ELSE Digits(Between(m, q, TimesFive(Times(m, 4, 0), 2 - q),
                      TimesFive(<<1>>, 2 - q)),
              2 - q)

\* the double m * 2^q as a value: Infinity from 2^1024 on
Double(d) ==
  IF Len(d.m) = 0 THEN Dec(FALSE, "0", 0)
  ELSE IF d.q > 971 THEN Infinity(FALSE)
  ELSE Printed(d.m, d.q)

\* the number with the sign
Signed(neg, v) ==
  IF v.t = "infinity" THEN Infinity(neg)
  ELSE IF v.digits = "0" THEN v
  ELSE [v EXCEPT !.neg = neg]

\* a decimal is rounded in units of 2^(-Scale): the last of the 54 bits
\* that decide a double is at 2^(-1075) or above, which takes 64 halvings
\* or more
Scale == 1139

\* n * 10^e, and whether a remainder was lost
Scaled(n, e) ==
  IF e >= 0 THEN [n |-> TimesTen(n, e), lost |-> FALSE]
  ELSE OverTen(n, 0 - e)

\* the double nearest to a * 10^e, for a natural a that is not 0
ToDouble(a, e) ==
  Double(Nearest(Narrow(Scaled(TimesTwo(a, Scale), e), Scale - 1075),
                 Scale))

\* the double nearest to the number v: Infinity from 10^309 on, 0 below
\* 10^(-324), and v itself when it has no more than 15 digits and lies
\* where doubles keep 15 digits
Fitted(v) ==
  IF v.digits = "0" THEN v
  ELSE IF Len(v.digits) + v.e > 309 THEN Infinity(v.neg)
  ELSE IF Len(v.digits) + v.e < -323 THEN Num(0)
  ELSE IF /\ Len(v.digits) <= 15
          /\ Len(v.digits) + v.e >= -306
          /\ Len(v.digits) + v.e <= 308
       THEN v
  ELSE Signed(v.neg, ToDouble(Natural(v.digits), v.e))

\* the double nearest to the decimal (-1)^neg * digits * 10^e
Rounded(neg, digits, e) == Fitted(Dec(neg, digits, e))

\* the value of the digits of an exponent; more than 6 digits count as
\* 10^6, which lies beyond the exponent of every double as they do
RECURSIVE ExponentVal(_)
ExponentVal(s) ==
  IF Len(s) > 1 /\ Head(s) = "0" THEN ExponentVal(Tail(s))
  ELSE IF Len(s) > 6 THEN 1000000
  ELSE DigitsVal(s, 0)

\* the value of a hexadecimal, octal or binary numeral
RECURSIVE RadixVal(_, _, _)
RadixVal(s, base, acc) ==
  IF Len(s) = 0 THEN acc
  ELSE RadixVal(SubSeq(s, 2, Len(s)), base,
                Times(acc, base, RadixDigit(SubSeq(s, 1, 1), base)))

\* a numeral that is read but not yet rounded
Literal(neg, digits, e) ==
  [t |-> "literal", neg |-> neg, digits |-> digits, e |-> e]

\* the decimal digits of the natural a
Written(a) == IF Len(a) = 0 THEN "0" ELSE Decimal(a, Len(a))

\* StrDecimalLiteral without its sign: digits with an optional fraction
\* and an optional exponent, or a fraction alone
DecimalLiteral(neg, s) ==
  LET x     == FirstOf(s, {"e", "E"})
      mant  == IF x = 0 THEN s ELSE SubSeq(s, 1, x - 1)
      ex    == IF x = 0 THEN "" ELSE SubSeq(s, x + 1, Len(s))
      signed == Len(ex) > 0 /\ SubSeq(ex, 1, 1) \in {"+", "-"}
      exDigits == IF signed THEN SubSeq(ex, 2, Len(ex)) ELSE ex
      dot   == FirstOf(mant, {"."})
      int   == IF dot = 0 THEN mant ELSE SubSeq(mant, 1, dot - 1)
      frac  == IF dot = 0 THEN "" ELSE SubSeq(mant, dot + 1, Len(mant))
      exVal == IF x = 0 THEN 0
               ELSE IF signed /\ SubSeq(ex, 1, 1) = "-"
                    THEN 0 - ExponentVal(exDigits)
                    ELSE ExponentVal(exDigits)
  IN IF /\ AllDigits(int) /\ AllDigits(frac)
        /\ Len(int) + Len(frac) > 0
        /\ (x # 0 => Len(exDigits) > 0 /\ AllDigits(exDigits))
     THEN Literal(neg, int \o frac, exVal - Len(frac))
     ELSE NaN

\* a hexadecimal, octal or binary integer literal without its prefix
RadixLiteral(digits, base) ==
  IF ~AllRadixDigits(digits, base) THEN NaN
  ELSE Literal(FALSE, Written(RadixVal(digits, base, <<>>)), 0)

\* the number of a numeral that was read, or what was read in its place
Evaluated(l) ==
  IF l.t = "literal" THEN Rounded(l.neg, l.digits, l.e) ELSE l

\* StrNumericLiteral: Infinity, a hexadecimal, octal or binary integer, or
\* an optionally signed decimal; the empty string is 0
Numeral(s) ==
  Evaluated(
    IF Len(s) = 0 THEN Num(0)
    ELSE IF s \in {"Infinity", "+Infinity"} THEN Infinity(FALSE)
    ELSE IF s = "-Infinity" THEN Infinity(TRUE)
    ELSE IF Len(s) > 2
              /\ SubSeq(s, 1, 2) \in {"0x", "0X", "0o", "0O", "0b", "0B"}
         THEN RadixLiteral(SubSeq(s, 3, Len(s)),
                           IF SubSeq(s, 2, 2) \in {"x", "X"} THEN 16
                           ELSE IF SubSeq(s, 2, 2) \in {"o", "O"} THEN 8
                           ELSE 2)
    ELSE DecimalLiteral(SubSeq(s, 1, 1) = "-",
                        IF SubSeq(s, 1, 1) \in {"+", "-"}
                        THEN SubSeq(s, 2, Len(s)) ELSE s))

\* StringToNumber: white space around the numeral is stripped
StringToNumber(str) == Numeral(TrimRight(TrimLeft(str)))

\* Number(v) for a primitive v
PrimitiveToNumber(v) ==
  CASE v.t = "undefined" -> NaN
    [] v.t = "null"      -> Num(0)
    [] v.t = "NaN"       -> NaN
    [] v.t = "boolean"   -> IF v.b THEN Num(1) ELSE Num(0)
    [] v.t = "number"    -> v
    [] v.t = "infinity"  -> v
    [] v.t = "string"    -> StringToNumber(v.s)

\* the number of the primitive of a conversion, or the error it raised
NumberOf(p) ==
  IF p.st = "throw" THEN p ELSE Value(PrimitiveToNumber(p.val))

\* Number(v): the outcome
Number(v) == NumberOf(ToPrimitive(v, "number"))

\* Number(v) for a value the conversion does not raise on
ToNumber(v) == Number(v).val

IsNaN(v) == v.t = "NaN"

\* a == b between primitives: a number and a string are compared as
\* numbers
StrictEquals_mLoose(a, b) ==
  /\ a.t # "NaN" /\ b.t # "NaN"
  /\ \/ a = b
     \/ /\ {a.t, b.t} = {"number", "string"}
        /\ ToNumber(IF a.t = "string" THEN a ELSE b) =
             (IF a.t = "number" THEN a ELSE b)

\* a === b: NaN equals nothing; an object, an array or a Date equals itself
\* alone, and the raw value of a call is never the object a literal holds
StrictEquals(a, b) ==
  /\ a.t # "NaN" /\ b.t # "NaN"
  /\ a.t \notin {"object", "array", "date"}
  /\ a = b

(***************************************************************************)
(* errorFmt and the decoder descriptors handed to createDecoder.  A        *)
(* function of a descriptor evaluates to an outcome: the value it          *)
(* returns, or the error it raises.                                        *)
(***************************************************************************)
\* the message with the string of the raw value in it, or the error the
\* conversion of the raw value raised
Message(head, s, tail) ==
  IF s.st = "throw" THEN s ELSE Value(head \o s.val.s \o tail)

\* errorFmt(decoderType, expected, raw)
errorFmt(decoderType, expected, raw) ==
  Message(decoderType \o " Decoder: Expected raw value to be " \o expected
            \o " but got: ",
          String(raw), ".")

\* isoDateStr.test(s):
\* /^(\d{4})-(\d{2})-(\d{2})([ T](\d{2}:\d{2}:\d{2}Z?)?)?$/
isoDateStr(s) ==
  LET n == Len(s)
      ch(i) == SubSeq(s, i, i)
      dig(i) == IsDigit(ch(i))
  IN /\ n >= 10
     /\ dig(1) /\ dig(2) /\ dig(3) /\ dig(4)
     /\ ch(5) = "-"
     /\ dig(6) /\ dig(7)
     /\ ch(8) = "-"
     /\ dig(9) /\ dig(10)
     /\ \/ n = 10
        \/ n = 11 /\ ch(11) \in {" ", "T"}
        \/ /\ n \in {19, 20}
           /\ ch(11) \in {" ", "T"}
           /\ dig(12) /\ dig(13) /\ ch(14) = ":"
           /\ dig(15) /\ dig(16) /\ ch(17) = ":"
           /\ dig(18) /\ dig(19)
           /\ (n = 20 => ch(20) = "Z")

\* new Date() of the unreachable no-match branch of the date parser
DateNow == [t |-> "date", now |-> TRUE]

\* the descriptors: those of boolean, date, number and string, and the
\* strictNumber descriptor of the createDecoder tests and of the README
Descriptors == {"Boolean", "Date", "Number", "String", "Custom"}

\* the accepted strings without those of null and undefined
BooleanStrings_mNoNull == {"true", "false", "1", "0"}

BooleanStrings == {"true", "false", "1", "0", "null", "undefined"}

\* the test of the string s of the raw value, or the error the conversion
\* of the raw value raised
Tested(desc, s) ==
  IF s.st = "throw" THEN s
  ELSE Value(CASE desc = "Boolean" -> s.val.s \in BooleanStrings
               [] desc = "Date"    -> isoDateStr(s.val.s)
               [] desc = "Number"  -> ~IsNaN(PrimitiveToNumber(s.val)))

\* descriptor.isValid(raw)
isValid(desc, raw) ==
  CASE desc = "String" ->
         Value(TypeOf(raw) \in {"boolean", "number", "string"})
    [] desc = "Custom" -> Value(TypeOf(raw) = "number")
    [] desc \in {"Boolean", "Date", "Number"} -> Tested(desc, String(raw))

\* the Date the date parser makes of a string: that of the year, month
\* and day the pattern finds, or the Date of the current time
NewDate(s) ==
  IF isoDateStr(s)
  THEN DateOf(DigitsVal(SubSeq(s, 1, 4), 0),
              DigitsVal(SubSeq(s, 6, 7), 0) - 1,
              DigitsVal(SubSeq(s, 9, 10), 0))
  ELSE DateNow

\* what the parser makes of the conversion p of the raw value: the
\* boolean parser converts no raw value that is true or 'true'
Parsed(desc, raw, p) ==
  IF desc = "Boolean" /\ (raw = Bool(TRUE) \/ raw = Str("true"))
  THEN Value(Bool(TRUE))
  ELSE IF p.st = "throw" THEN p
  ELSE Value(CASE desc = "Boolean" -> Bool(p.val = Num(1))
               [] desc \in {"Number", "Custom"} -> p.val
               [] desc = "Date"   -> NewDate(p.val.s)
               [] desc = "String" -> p.val)

\* descriptor.parse(raw)
parse(desc, raw) ==
  Parsed(desc, raw,
         IF desc \in {"Date", "String"} THEN String(raw) ELSE Number(raw))

\* descriptor.errorMsg(raw); the strictNumber descriptor calls
\* Decode.errorFmt, which the exported set does not have
errorMsg(desc, raw) ==
  CASE desc = "Boolean" -> errorFmt("Boolean", "a boolean", raw)
    [] desc = "Date"    -> errorFmt("Date", "an ISO date string", raw)
    [] desc = "Number"  -> errorFmt("Number", "a number", raw)
    [] desc = "String"  -> errorFmt("String", "a string", raw)
    [] desc = "Custom"  ->
         Raise(TypeError("Decode.errorFmt is not a function"))

(***************************************************************************)
(* The constructors.  `arguments` is the argument list of the call, so     *)
(* hasDefault is decided by its length as in the source.                   *)
(***************************************************************************)
Arg(arguments, i) == IF Len(arguments) >= i THEN arguments[i] ELSE Undefined

\* createDecoder(descriptor) -> decoder(defaultValue?)
decoder(config, desc, arguments) ==
  [k |-> "decode", config |-> config, desc |-> desc,
   hasDefault |-> (Len(arguments) = 1),
   defaultValue |-> Arg(arguments, 1)]

\* literal(literalValue, defaultValue?)
literal(config, arguments) ==
  [k |-> "decodeLiteral", config |-> config,
   literalValue |-> Arg(arguments, 1),
   hasDefault |-> (Len(arguments) = 2),
   defaultValue |-> Arg(arguments, 2)]

\* array(decoder, defaultValue?)
array(config, arguments) ==
  [k |-> "decodeArray", config |-> config,
   decoder |-> Arg(arguments, 1),
   hasDefault |-> (Len(arguments) = 2),
   defaultValue |-> Arg(arguments, 2)]

\* object(map, defaultValue?); map lists [key, rawKey, decoder] in the
\* order of Object.keys(map)
object(config, arguments) ==
  [k |-> "decodeObject", config |-> config,
   map |-> Arg(arguments, 1),
   hasDefault |-> (Len(arguments) = 2),
   defaultValue |-> Arg(arguments, 2)]

\* pipe(decoder, ...decoders)
pipe(arguments) == [k |-> "pipeDecode", allDecoders |-> arguments]

\* type()
type == [k |-> "typeDecoder"]

(***************************************************************************)
(* Decode calls.  A call evaluates to a result                             *)
(*   [st, val, err, evs]                                                   *)
(* st = "return" with the returned value val, or st = "throw" with the     *)
(* raised error err; evs is the trace of the functions the call invoked,   *)
(* in order.  path names the position of the invoked decoder inside the    *)
(* decoder that was called: <<>> is that decoder, p \o <<1>> the item      *)
(* decoder of the array at p, p \o <<i>> the i-th field decoder of the     *)
(* object at p or the i-th stage of the pipe at p.                         *)
(***************************************************************************)
Return(val, evs) == [st |-> "return", val |-> val, evs |-> evs]
Throw(err, evs)  == [st |-> "throw", err |-> err, evs |-> evs]

CallbackEv(config, path, error) ==
  [op |-> "errorCallback", config |-> config, path |-> path, error |-> error]

\* the callback of one module-level configuration that every configure
\* call overwrites
errorCallback_mLastSet(config, error, path, defaultValue, evs) ==
  LET last == Len(sets) IN
  IF sets[last].errorCallback = "throw"
  THEN Throw(error, Append(evs, CallbackEv(last, path, error)))
  ELSE Return(defaultValue, Append(evs, CallbackEv(last, path, error)))

\* the callback the Config object had when configure was called with it: a
\* logging callback for a Config the caller passed, the raising one for the
\* exported set
errorCallback_mCaptured(config, error, path, defaultValue, evs) ==
  IF config = 1
  THEN Throw(error, Append(evs, CallbackEv(config, path, error)))
  ELSE Return(defaultValue, Append(evs, CallbackEv(config, path, error)))

\* config.errorCallback(error), then `return defaultValue`: the callback is
\* read from the Config object when the check fails; it either raises the
\* error it was given or returns
errorCallback(config, error, path, defaultValue, evs) ==
  IF sets[config].errorCallback = "throw"
  THEN Throw(error, Append(evs, CallbackEv(config, path, error)))
  ELSE Return(defaultValue, Append(evs, CallbackEv(config, path, error)))

\* the result of a call that ends with the evaluation of an outcome
Outcome(o, evs) ==
  IF o.st = "throw" THEN Throw(o.err, evs) ELSE Return(o.val, evs)

\* config.errorCallback(new Error(message)), then `return defaultValue`:
\* the message is evaluated before the callback is called, and an error
\* it raises leaves the decoder without a call of the callback
report(config, message, path, defaultValue, evs) ==
  IF message.st = "throw"
  THEN Throw(message.err, evs)
  ELSE errorCallback(config, Error(message.val), path, defaultValue, evs)

\* the call of a decoder after isValid has given `valid`
Validated(d, raw, path, valid, hasDefault) ==
  IF valid.st = "throw"
  THEN Throw(valid.err, <<[op |-> "isValid", path |-> path, arg |-> raw]>>)
  ELSE IF ~valid.val
  THEN IF ~hasDefault
       THEN report(d.config, errorMsg(d.desc, raw), path, d.defaultValue,
                   <<[op |-> "isValid", path |-> path, arg |-> raw],
                     [op |-> "errorMsg", path |-> path, arg |-> raw]>>)
       ELSE Return(d.defaultValue,
                   <<[op |-> "isValid", path |-> path, arg |-> raw]>>)
  ELSE Outcome(parse(d.desc, raw),
               <<[op |-> "isValid", path |-> path, arg |-> raw],
                 [op |-> "parse", path |-> path, arg |-> raw]>>)

\* decode without the hasDefault test around the call of the callback
decode_mAlwaysCallback(d, raw, path) ==
  Validated(d, raw, path, isValid(d.desc, raw), FALSE)

\* createDecoder: function decode(raw)
decode(d, raw, path) ==
  Validated(d, raw, path, isValid(d.desc, raw), d.hasDefault)

\* the message of decodeLiteral from the strings l and r of the literal
\* and of the raw value, or the error the first conversion to raise raised
LiteralMessage(literalValue, raw, l, r) ==
  IF l.st = "throw" THEN l
  ELSE IF r.st = "throw" THEN r
  ELSE errorFmt("Literal", TypeOf(literalValue) \o ":" \o l.val.s,
                Str(TypeOf(raw) \o ":" \o r.val.s))

\* decodeLiteral reporting the values without their types
decodeLiteral_mMessage(d, raw, path) ==
  IF ~StrictEquals(raw, d.literalValue)
  THEN IF ~d.hasDefault
       THEN report(d.config,
                   errorFmt("Literal", ToStr(d.literalValue), raw),
                   path, d.defaultValue, <<>>)
       ELSE Return(d.defaultValue, <<>>)
  ELSE Return(raw, <<>>)

\* literal: function decodeLiteral(raw); the template `${typeof raw}:${raw}`
\* is evaluated before errorFmt is called
decodeLiteral(d, raw, path) ==
  IF ~StrictEquals(raw, d.literalValue)
  THEN IF ~d.hasDefault
       THEN report(d.config,
                   LiteralMessage(d.literalValue, raw,
                                  String(d.literalValue), String(raw)),
                   path, d.defaultValue, <<>>)
       ELSE Return(d.defaultValue, <<>>)
  ELSE Return(raw, <<>>)

\* a decoder body that returns nothing
typeDecoder_mUndefined(d, raw, path) == Return(Undefined, <<>>)

\* type: function decoder(raw)
typeDecoder(d, raw, path) == Return(raw, <<>>)

RECURSIVE Call(_, _, _)
RECURSIVE Map(_, _, _, _, _, _)
RECURSIVE Map_mReversed(_, _, _, _, _, _)
RECURSIVE Reduce_mOutputKey(_, _, _, _, _, _)
RECURSIVE Reduce_mReversed(_, _, _, _, _, _)
RECURSIVE Reduce(_, _, _, _, _, _)
RECURSIVE PipeReduce_mReversed(_, _, _, _, _)
RECURSIVE PipeReduce_mRunsOn(_, _, _, _, _)
RECURSIVE PipeReduce(_, _, _, _, _)

\* the elements of a raw with Array.isArray(raw)
Items(raw) == IF raw.t = "array" THEN raw.items ELSE <<>>

\* map collecting the results in reverse
Map_mReversed(itemDecoder, raw, i, path, acc, evs) ==
  IF i > Len(Items(raw)) THEN Return(Arr(acc), evs)
  ELSE LET r == Call(itemDecoder, <<Items(raw)[i], Num(i - 1), raw>>,
                     path \o <<1>>)
       IN IF r.st = "throw" THEN Throw(r.err, evs \o r.evs)
          ELSE Map_mReversed(itemDecoder, raw, i + 1, path,
                             <<r.val>> \o acc, evs \o r.evs)

\* raw.map(decoder): the callback gets (element, index, array); a raised
\* error ends the iteration
Map(itemDecoder, raw, i, path, acc, evs) ==
  IF i > Len(Items(raw)) THEN Return(Arr(acc), evs)
  ELSE LET r == Call(itemDecoder, <<Items(raw)[i], Num(i - 1), raw>>,
                     path \o <<1>>)
       IN IF r.st = "throw" THEN Throw(r.err, evs \o r.evs)
          ELSE Map(itemDecoder, raw, i + 1, path, Append(acc, r.val),
                   evs \o r.evs)

\* array: function decodeArray(raw)
decodeArray(d, raw, path) ==
  IF ~IsArray(raw)
  THEN IF ~d.hasDefault
       THEN report(d.config, errorFmt("Array", "an array", raw),
                   path, d.defaultValue, <<>>)
       ELSE Return(d.defaultValue, <<>>)
  ELSE Map(d.decoder, raw, 1, path, <<>>, <<>>)

\* raw[rawKey] for a raw with typeof raw === 'object': an own property,
\* or else a member inherited along the prototype chain
Index(raw, rawKey) ==
  CASE raw.t = "object" -> GetProp(raw, rawKey)
    [] raw.t = "array" ->
         IF rawKey = "length" THEN Num(Len(raw.items))
         ELSE IF /\ Len(rawKey) > 0
                 /\ AllDigits(rawKey)
                 /\ ToString(DigitsVal(rawKey, 0)) = rawKey
                 /\ DigitsVal(rawKey, 0) < Len(raw.items)
              THEN raw.items[DigitsVal(rawKey, 0) + 1]
              ELSE Inherited("Array", rawKey)
    [] raw.t = "date" -> Inherited("Date", rawKey)
    [] raw.t = "prototype" ->
         IF rawKey = "__proto__"
         THEN IF raw.of = "Object" THEN Null ELSE Proto("Object")
         ELSE IF raw.of = "Array" /\ rawKey = "length" THEN Num(0)
         ELSE IF rawKey \in Members(raw.of) THEN Member(raw.of, rawKey)
         ELSE IF rawKey \in ObjectMembers THEN Member("Object", rawKey)
         ELSE Undefined
    [] OTHER -> Undefined

\* reduce reading the raw property named by the output key
Reduce_mOutputKey(map, raw, i, path, acc, evs) ==
  IF i > Len(map) THEN Return(Obj(acc), evs)
  ELSE IF raw.t = "null"
       THEN Throw(TypeError("Cannot read properties of null (reading '"
                              \o map[i].key \o "')"), evs)
  ELSE LET r == Call(map[i].decoder, <<Index(raw, map[i].key)>>,
                     path \o <<i>>)
           key == map[i].key
       IN IF r.st = "throw" THEN Throw(r.err, evs \o r.evs)
          ELSE Reduce_mOutputKey(map, raw, i + 1, path,
                                 [k \in DOMAIN acc \cup {key} |->
                                    IF k = key THEN r.val ELSE acc[k]],
                                 evs \o r.evs)

\* reduceRight: the keys of the mapping taken from the last to the first
Reduce_mReversed(map, raw, i, path, acc, evs) ==
  IF i > Len(map) THEN Return(Obj(acc), evs)
  ELSE IF raw.t = "null"
       THEN Throw(TypeError("Cannot read properties of null (reading '"
                              \o map[Len(map) - i + 1].rawKey \o "')"), evs)
  ELSE LET n == Len(map) - i + 1
           r == Call(map[n].decoder, <<Index(raw, map[n].rawKey)>>,
                     path \o <<n>>)
           key == map[n].key
       IN IF r.st = "throw" THEN Throw(r.err, evs \o r.evs)
          ELSE Reduce_mReversed(map, raw, i + 1, path,
                                [k \in DOMAIN acc \cup {key} |->
                                   IF k = key THEN r.val ELSE acc[k]],
                                evs \o r.evs)

\* Object.keys(map).reduce((acc, key) => ({...acc, [key]:
\* decoder(raw[rawKey])}), {}): reading a property of null raises a
\* TypeError
Reduce(map, raw, i, path, acc, evs) ==
  IF i > Len(map) THEN Return(Obj(acc), evs)
  ELSE IF raw.t = "null"
       THEN Throw(TypeError("Cannot read properties of null (reading '"
                              \o map[i].rawKey \o "')"), evs)
  ELSE LET r == Call(map[i].decoder, <<Index(raw, map[i].rawKey)>>,
                     path \o <<i>>)
           key == map[i].key
       IN IF r.st = "throw" THEN Throw(r.err, evs \o r.evs)
          ELSE Reduce(map, raw, i + 1, path,
                      [k \in DOMAIN acc \cup {key} |->
                         IF k = key THEN r.val ELSE acc[k]],
                      evs \o r.evs)

\* decodeObject reporting the failure as an array decoder's
decodeObject_mMessage(d, raw, path) ==
  IF TypeOf(raw) # "object"
  THEN IF ~d.hasDefault
       THEN report(d.config, errorFmt("Array", "an array", raw),
                   path, d.defaultValue, <<>>)
       ELSE Return(d.defaultValue, <<>>)
  ELSE Reduce(d.map, raw, 1, path, EmptyFields, <<>>)

\* object: function decodeObject(raw)
decodeObject(d, raw, path) ==
  IF TypeOf(raw) # "object"
  THEN IF ~d.hasDefault
       THEN report(d.config, errorFmt("Object", "an object", raw),
                   path, d.defaultValue, <<>>)
       ELSE Return(d.defaultValue, <<>>)
  ELSE Reduce(d.map, raw, 1, path, EmptyFields, <<>>)

\* reduceRight: the stages applied from the last to the first
PipeReduce_mReversed(allDecoders, memo, i, path, evs) ==
  IF i > Len(allDecoders) THEN Return(memo, evs)
  ELSE LET k == Len(allDecoders) - i + 1
           r == Call(allDecoders[k], <<memo>>, path \o <<k>>)
       IN IF r.st = "throw" THEN Throw(r.err, evs \o r.evs)
          ELSE PipeReduce_mReversed(allDecoders, r.val, i + 1, path,
                                    evs \o r.evs)

\* reduce that runs the later stages on undefined after a stage has raised,
\* and raises the first error at the end
PipeReduce_mRunsOn(allDecoders, memo, i, path, evs) ==
  IF i > Len(allDecoders) THEN Return(memo, evs)
  ELSE LET r == Call(allDecoders[i], <<memo>>, path \o <<i>>)
       IN IF r.st = "throw"
          THEN Throw(r.err,
                     PipeReduce_mRunsOn(allDecoders, Undefined, i + 1, path,
                                        evs \o r.evs).evs)
          ELSE PipeReduce_mRunsOn(allDecoders, r.val, i + 1, path,
                                  evs \o r.evs)

\* allDecoders.reduce((memo, decoder) => decoder(memo), raw)
PipeReduce(allDecoders, memo, i, path, evs) ==
  IF i > Len(allDecoders) THEN Return(memo, evs)
  ELSE LET r == Call(allDecoders[i], <<memo>>, path \o <<i>>)
       IN IF r.st = "throw" THEN Throw(r.err, evs \o r.evs)
          ELSE PipeReduce(allDecoders, r.val, i + 1, path, evs \o r.evs)

\* pipe: function decode(raw)
pipeDecode(d, raw, path) == PipeReduce(d.allDecoders, raw, 1, path, <<>>)

\* the result of an invoked decoder function: the trace of its body
\* follows the event of the invocation
Invoked(called, r) ==
  IF r.st = "throw"
  THEN Throw(r.err, <<called>> \o r.evs)
  ELSE Return(r.val, <<called>> \o r.evs)

\* d(...args): the invocation of a decoder function; every decoder takes
\* its first argument as raw and ignores the rest
Call(d, args, path) ==
  LET raw == Arg(args, 1)
  IN Invoked([op |-> "call", path |-> path, args |-> args],
             CASE d.k = "decode"        -> decode(d, raw, path)
               [] d.k = "decodeLiteral" -> decodeLiteral(d, raw, path)
               [] d.k = "decodeArray"   -> decodeArray(d, raw, path)
               [] d.k = "decodeObject"  -> decodeObject(d, raw, path)
               [] d.k = "pipeDecode"    -> pipeDecode(d, raw, path)
               [] d.k = "typeDecoder"   -> typeDecoder(d, raw, path))

(***************************************************************************)
(* The inputs of a session.                                                *)
(***************************************************************************)

\* the arguments that follow the required ones in a constructor call
DefaultArgs == {<<>>, <<Undefined>>, <<Str("d")>>}

LiteralValues == {Num(10), Str("1")}

Prims ==
  {Undefined, Null, Bool(TRUE), Bool(FALSE), Num(1), Num(10),
   Str("1"), Str("10"), Str("11"), Str("b"), Str("2018-02-15")}

Elems == {Str("5"), Str("b")}

SeqsUpTo(S, n) == UNION {[1..m -> S] : m \in 0..n}

RawArrays == {Arr(xs) : xs \in SeqsUpTo(Elems, MaxLen)}

\* raw objects over the keys A, B and Z; a key maps to NoProp when the
\* object does not have it
NoProp == [t |-> "absent"]

RawObjectOf(a, b, z) ==
  LET all == [A |-> a, B |-> b, Z |-> z]
      keys == {k \in DOMAIN all : all[k] # NoProp}
  IN Obj([k \in keys |-> all[k]])

RawObjects ==
  {RawObjectOf(a, b, z) : a \in {NoProp, Str("5"), Str("x")},
                          b \in {NoProp, Str("x")},
                          z \in {NoProp, Str("5")}}

NestedRaws ==
  {Arr(<<Arr(<<Str("5"), Str("b")>>)>>),
   Arr(<<RawObjectOf(Str("5"), NoProp, NoProp)>>),
   RawObjectOf(Arr(<<Str("5")>>), Str("x"), NoProp)}

RawValues == Prims \cup RawArrays \cup RawObjects \cup NestedRaws

\* further primitive raw values, handed to leaf decoders only
\* the date-time strings of the date decoder's test: a date, a time and a
\* suffix
DateTimeRaws ==
  {Str("2018-02-15" \o time \o suffix) :
     time \in {" 00:00:00", "T00:00:00"},
     suffix \in {"", "Z", ".123", ".123Z"}}

LeafRaws ==
  {Str("true"), Str("false"), Num(0), Str("0"), Num(999), Str("1.5"),
   DateOf(2018, 1, 15)} \cup DateTimeRaws

NoDecoder == [k |-> "none"]
Idle == [st |-> "idle"]

\* a call that has not been made, and the two calls before either is made
NotStarted == [pc |-> "idle"]
NoTasks == <<NotStarted, NotStarted>>

IsLeaf(d) == d.k \in {"decode", "decodeLiteral", "typeDecoder"}

\* decoders a session passes to a combinator: the one it built last, if a
\* leaf, or a combinator built in place from the default set
NestedDecoders ==
  {array(1, <<decoder(1, "Number", <<>>)>>),
   object(1, <<<<[key |-> "a", rawKey |-> "A",
                  decoder |-> decoder(1, "Number", <<>>)]>>>>)}

\* a further raw value, handed to pipes only
PipeRaws == {Str("a")}

\* JSON.parse('{"toString": 5}'): a raw object that has no primitive, as
\* its toString is not a function and its valueOf returns the object
NoPrimitive == Obj([toString |-> Num(5)])

\* one raw value of each shape
OtherRaws ==
  {Str("b"), Arr(<<>>), Arr(<<Str("5"), Str("b")>>),
   RawObjectOf(Str("5"), Str("x"), Str("5")), NoPrimitive}

\* the raw values decoder d is called on: those of the shape it decodes
\* and one of each other shape; a type() decoder is called on every one
RawsFor(d) ==
  IF d.k = "typeDecoder" THEN RawValues \cup LeafRaws
  ELSE IF IsLeaf(d) THEN Prims \cup LeafRaws \cup OtherRaws
  ELSE IF d.k = "pipeDecode" THEN Prims \cup PipeRaws \cup OtherRaws
  ELSE IF d.k = "decodeArray"
    THEN RawArrays \cup NestedRaws \cup Prims \cup OtherRaws
  ELSE IF d.k = "decodeObject"
    THEN RawObjects \cup NestedRaws \cup Prims \cup OtherRaws
  ELSE RawValues

SubDecoders == (IF IsLeaf(dec) THEN {dec} ELSE {}) \cup NestedDecoders

\* the decoders of the second stage of a pipe; the first of them is the
\* decoder of the second field of a mapping
SecondDecoders(s) ==
  {decoder(s, "String", <<>>), decoder(s, "Number", <<Undefined>>),
   decoder(s, "Number", <<>>)}

\* the decoder of the third stage of a pipe
ThirdDecoders(s) == {literal(s, <<Num(10)>>)}

\* field mappings { a: ['A', d] } and { a: ['A', d], b: ['B', e] }, and {};
\* a field is also read from the raw key 'constructor', which no raw
\* object of the session has as its own
Maps(s) ==
  LET first == {[key |-> "a", rawKey |-> "A", decoder |-> d] :
                  d \in SubDecoders}
                 \cup {[key |-> "a", rawKey |-> "constructor",
                        decoder |-> d] :
                        d \in {type, decoder(s, "String", <<>>)}}
      second == {[key |-> "b", rawKey |-> "B",
                  decoder |-> decoder(s, "String", <<>>)]}
  IN {<<>>} \cup {<<f>> : f \in first}
            \cup {<<f, g>> : f \in first, g \in second}

(***************************************************************************)
(* The session: it builds its decoder, combinators over what it built      *)
(* before, and then calls it.                         *)
(***************************************************************************)
\* the exported set, const Decode = configure()
DefaultSet == 1

\* const Decode = configure(): the exported set raises the error
Init ==
  /\ sets = <<[errorCallback |-> "throw"]>>
  /\ dec = NoDecoder
  /\ out = Idle
  /\ tasks = NoTasks

\* what the error callback of a Config does with the error it is given:
\* it raises it, as the callback of the default Config and the tracking
\* callback of the tests do, or it returns
ErrorCallbacks == {"throw", "return"}

\* configure(config) / Decode.config(config), config a Config object with
\* the given callback; configure() takes the default Config, whose
\* callback raises
Configure(callback) ==
  /\ Len(sets) < MaxSets
  /\ sets' = Append(sets, [errorCallback |-> callback])
  /\ UNCHANGED <<dec, out, tasks>>

\* set.boolean(...), set.date(...), set.number(...), set.string(...) and
\* set.createDecoder(descriptor)(...)
BuildDecoder(s, desc, rest) ==
  /\ out = Idle
  /\ dec' = decoder(s, desc, rest)
  /\ out' = Idle
  /\ UNCHANGED <<sets, tasks>>

\* set.literalOf(literalValue, ...)
BuildLiteral(s, literalValue, rest) ==
  /\ out = Idle
  /\ dec' = literal(s, <<literalValue>> \o rest)
  /\ out' = Idle
  /\ UNCHANGED <<sets, tasks>>

\* set.array(decoder, ...)
BuildArray(s, item, rest) ==
  /\ out = Idle
  /\ dec' = array(s, <<item>> \o rest)
  /\ out' = Idle
  /\ UNCHANGED <<sets, tasks>>

\* set.object(map, ...)
BuildObject(s, map, rest) ==
  /\ out = Idle
  /\ dec' = object(s, <<map>> \o rest)
  /\ out' = Idle
  /\ UNCHANGED <<sets, tasks>>

\* set.pipe(decoder, ...decoders)
BuildPipe(stages) ==
  /\ out = Idle
  /\ dec' = pipe(stages)
  /\ out' = Idle
  /\ UNCHANGED <<sets, tasks>>

\* set.type()
BuildType ==
  /\ out = Idle
  /\ dec' = type
  /\ out' = Idle
  /\ UNCHANGED <<sets, tasks>>

\* dec(raw): the call of the built decoder
Decode(raw) ==
  /\ dec # NoDecoder
  /\ out = Idle
  /\ out' = [raw |-> raw, res |-> Call(dec, <<raw>>, <<>>)]
  /\ UNCHANGED <<sets, dec, tasks>>

\* the session has built no decoder yet; it has built none or a leaf,
\* which it may pass to a combinator
Fresh == dec = NoDecoder
Nestable == dec = NoDecoder \/ IsLeaf(dec)

\* the sets a session builds from: the exported set and the set it
\* derived last
SessionSets == {DefaultSet, Len(sets)}

Next ==
  \/ Fresh /\ \E callback \in ErrorCallbacks : Configure(callback)
  \/ /\ Fresh
     /\ \E s \in SessionSets, desc \in Descriptors, rest \in DefaultArgs :
          BuildDecoder(s, desc, rest)
  \/ /\ Fresh
     /\ \E s \in SessionSets, lit \in LiteralValues,
           rest \in DefaultArgs : BuildLiteral(s, lit, rest)
  \/ /\ Nestable
     /\ \E s \in SessionSets, item \in SubDecoders, rest \in DefaultArgs :
          BuildArray(s, item, rest)
  \/ /\ Nestable
     /\ \E s \in SessionSets, rest \in DefaultArgs :
          \E map \in Maps(s) : BuildObject(s, map, rest)
  \/ \E s \in SessionSets :
       /\ IsLeaf(dec)
       /\ \/ BuildPipe(<<dec>>)
          \/ \E e \in SecondDecoders(s) :
               \/ BuildPipe(<<dec, e>>)
               \/ \E f \in ThirdDecoders(s) : BuildPipe(<<dec, e, f>>)
  \/ Fresh /\ BuildType
  \/ \E raw \in RawsFor(dec) : Decode(raw)

Spec == Init /\ [][Next]_vars

(***************************************************************************)
(* Two calls of the built decoder, run one iteration at a time.  A call    *)
(* of an array, object or pipe decoder that reaches its map or reduce is   *)
(* a frame: its raw argument, the index of the next iteration, the         *)
(* accumulator handed to that iteration and the trace so far.  The         *)
(* iterations of the two calls interleave freely, which covers a second    *)
(* call made from inside a sub-decoder or an error callback of the first.  *)
(* The two calls are also made on the raw value that has no primitive and  *)
(* by decoders of the strictNumber descriptor.                             *)
(***************************************************************************)
\* raw values the two calls are made on
TaskRaws ==
  {Str("b"), Str("10"),
   Arr(<<Str("5"), Str("b")>>), Arr(<<Str("b"), Str("5")>>),
   RawObjectOf(Str("5"), Str("x"), NoProp),
   RawObjectOf(NoProp, Str("x"), NoProp)}

\* the descriptors and trailing arguments of the leaf decoders of these
\* sessions
TaskDescriptors == {"Number"}
TaskDefaultArgs == {<<>>, <<Str("d")>>}

\* d(raw) reaches the map or reduce of d
Iterates(d, raw) ==
  CASE d.k = "decodeArray"  -> IsArray(raw)
    [] d.k = "decodeObject" -> TypeOf(raw) = "object"
    [] d.k = "pipeDecode"   -> TRUE
    [] OTHER                -> FALSE

\* the number of iterations of the map or reduce of d on raw
Iterations(d, raw) ==
  CASE d.k = "decodeArray"  -> Len(Items(raw))
    [] d.k = "decodeObject" -> Len(d.map)
    [] d.k = "pipeDecode"   -> Len(d.allDecoders)

\* an accumulator kept in the closure of the decoder: a call starts from
\* what the call before it left
InitialAcc_mKept(d, raw) ==
  IF tasks[1].pc = "done" /\ Iterates(d, tasks[1].raw)
  THEN tasks[1].acc
  ELSE CASE d.k = "decodeArray"  -> <<>>
         [] d.k = "decodeObject" -> EmptyFields
         [] d.k = "pipeDecode"   -> raw

\* the accumulator of the first iteration: the new array of map, the {} of
\* the object reduce, the raw of the pipe reduce
InitialAcc(d, raw) ==
  CASE d.k = "decodeArray"  -> <<>>
    [] d.k = "decodeObject" -> EmptyFields
    [] d.k = "pipeDecode"   -> raw

\* the value the call returns after the last iteration
Result(d, acc) ==
  CASE d.k = "decodeArray"  -> Arr(acc)
    [] d.k = "decodeObject" -> Obj(acc)
    [] d.k = "pipeDecode"   -> acc

Running(raw, i, acc, evs, overlapped) ==
  [pc |-> "running", raw |-> raw, i |-> i, acc |-> acc, evs |-> evs,
   overlapped |-> overlapped]

Done(raw, acc, res, overlapped) ==
  [pc |-> "done", raw |-> raw, acc |-> acc, res |-> res,
   overlapped |-> overlapped]

\* the frame after an iteration: the call returns when none is left
Settle(d, f) ==
  IF f.i > Iterations(d, f.raw)
  THEN Done(f.raw, f.acc, Return(Result(d, f.acc), f.evs), f.overlapped)
  ELSE f

\* d(raw) up to its first iteration; a call that reaches no iteration is
\* over at once
Enter(d, raw, overlapped) ==
  IF Iterates(d, raw)
  THEN Settle(d, Running(raw, 1, InitialAcc(d, raw),
                         <<[op |-> "call", path |-> <<>>, args |-> <<raw>>]>>,
                         overlapped))
  ELSE Done(raw, Undefined, Call(d, <<raw>>, <<>>), overlapped)

\* one accumulator shared by the calls of the decoder: the one the first
\* call created
Memo_mShared(t) ==
  IF Iterates(dec, tasks[1].raw) THEN tasks[1].acc ELSE tasks[t].acc

\* the accumulator handed to the next iteration of call t (acc, memo)
Memo(t) == tasks[t].acc

\* the sub-decoder call of the iteration of frame f
SubCall(d, f, acc) ==
  CASE d.k = "decodeArray" ->
         Call(d.decoder, <<f.raw.items[f.i], Num(f.i - 1), f.raw>>, <<1>>)
    [] d.k = "decodeObject" ->
         IF f.raw.t = "null"
         THEN Throw(TypeError("Cannot read properties of null (reading '"
                                \o d.map[f.i].rawKey \o "')"), <<>>)
         ELSE Call(d.map[f.i].decoder,
                   <<Index(f.raw, d.map[f.i].rawKey)>>, <<f.i>>)
    [] d.k = "pipeDecode" ->
         Call(d.allDecoders[f.i], <<acc>>, <<f.i>>)

\* the accumulator the iteration of frame f returns
NextAcc(d, f, acc, val) ==
  CASE d.k = "decodeArray"  -> Append(acc, val)
    [] d.k = "decodeObject" ->
         [k \in DOMAIN acc \cup {d.map[f.i].key} |->
            IF k = d.map[f.i].key THEN val ELSE acc[k]]
    [] d.k = "pipeDecode"   -> val

\* the frame f after its iteration, whose sub-decoder call gave r
Iterated(d, f, acc, r) ==
  IF r.st = "throw"
  THEN Done(f.raw, acc, Throw(r.err, f.evs \o r.evs), f.overlapped)
  ELSE Settle(d, Running(f.raw, f.i + 1, NextAcc(d, f, acc, r.val),
                         f.evs \o r.evs, f.overlapped))

\* one iteration of the map or reduce of call t
Iteration(d, t) ==
  Iterated(d, tasks[t], Memo(t), SubCall(d, tasks[t], Memo(t)))

\* dec(raw): the first of the two calls
FirstCall(raw) ==
  /\ dec # NoDecoder
  /\ tasks[1] = NotStarted
  /\ tasks' = [tasks EXCEPT ![1] = Enter(dec, raw, FALSE)]
  /\ UNCHANGED <<sets, dec, out>>

\* dec(raw): the second call, made after the first has returned or while
\* it is between two iterations
SecondCall(raw) ==
  /\ tasks[1] # NotStarted
  /\ tasks[2] = NotStarted
  /\ tasks' = [tasks EXCEPT ![2] = Enter(dec, raw, tasks[1].pc = "running")]
  /\ UNCHANGED <<sets, dec, out>>

\* the next iteration of one of the calls
StepCall(t) ==
  /\ tasks[t].pc = "running"
  /\ tasks' = [tasks EXCEPT ![t] = Iteration(dec, t)]
  /\ UNCHANGED <<sets, dec, out>>

NextCalls ==
  \/ tasks = NoTasks /\ \E callback \in ErrorCallbacks : Configure(callback)
  \/ /\ tasks = NoTasks
     /\ \E s \in 1..Len(sets), desc \in TaskDescriptors \cup {"Custom"},
           rest \in TaskDefaultArgs : BuildDecoder(s, desc, rest)
  \/ /\ tasks = NoTasks
     /\ \E s \in 1..Len(sets), item \in SubDecoders,
           rest \in TaskDefaultArgs : BuildArray(s, item, rest)
  \/ /\ tasks = NoTasks
     /\ \E s \in 1..Len(sets), rest \in TaskDefaultArgs :
          \E map \in Maps(s) : BuildObject(s, map, rest)
  \/ /\ tasks = NoTasks
     /\ IsLeaf(dec)
     /\ \E s \in 1..Len(sets) :
          \E e \in SecondDecoders(s) : BuildPipe(<<dec, e>>)
  \/ \E raw \in TaskRaws \cup {NoPrimitive} : FirstCall(raw)
  \/ \E raw \in TaskRaws \cup {NoPrimitive} : SecondCall(raw)
  \/ \E t \in 1..2 : StepCall(t)

SpecCalls == Init /\ [][NextCalls]_vars

(***************************************************************************)
(* A session that passes Config objects with a callback that returns to    *)
(* configure and replaces the callback of one by a raising one, after it   *)
(* has built its decoder and before it calls it.                           *)
(***************************************************************************)
\* no callback has been replaced
NoneReplaced ==
  \A s \in 1..Len(sets) : s > 1 => sets[s].errorCallback = "return"

\* config.errorCallback = error => { throw error; } on the Config object of
\* set s, which the caller of configure holds; the Config of the exported
\* set is out of the caller's reach.  The calls made so far are over.
ReplaceCallback(s) ==
  /\ s > 1
  /\ dec # NoDecoder
  /\ sets[s].errorCallback = "return"
  /\ sets' = [sets EXCEPT ![s] = [errorCallback |-> "throw"]]
  /\ out' = Idle
  /\ UNCHANGED <<dec, tasks>>

NextReplace ==
  \/ Configure("return")
  \/ /\ NoneReplaced
     /\ \E s \in 1..Len(sets), desc \in TaskDescriptors,
           rest \in TaskDefaultArgs : BuildDecoder(s, desc, rest)
  \/ /\ NoneReplaced
     /\ \E s \in 1..Len(sets), item \in SubDecoders,
           rest \in TaskDefaultArgs : BuildArray(s, item, rest)
  \/ /\ NoneReplaced
     /\ \E s \in 1..Len(sets), rest \in TaskDefaultArgs :
          \E map \in Maps(s) : BuildObject(s, map, rest)
  \/ /\ NoneReplaced
     /\ IsLeaf(dec)
     /\ \E s \in 1..Len(sets) :
          \E e \in SecondDecoders(s) : BuildPipe(<<dec, e>>)
  \/ \E s \in 1..Len(sets) : ReplaceCallback(s)
  \/ \E raw \in TaskRaws : Decode(raw)

SpecReplace == Init /\ [][NextReplace]_vars

(***************************************************************************)
(* A session that calls the constructors with more arguments than their   *)
(* defaulting form takes.                                                  *)
(***************************************************************************)
\* the arguments that follow the required ones: one or two more than the
\* default
ExtraArgs ==
  {<<Str("d"), Str("e")>>, <<Undefined, Str("e")>>,
   <<Str("e"), Undefined, Str("d")>>}

NextExtra ==
  \/ Fresh /\ \E callback \in ErrorCallbacks : Configure(callback)
  \/ /\ Fresh
     /\ \E s \in SessionSets, desc \in Descriptors, rest \in ExtraArgs :
          BuildDecoder(s, desc, rest)
  \/ /\ Fresh
     /\ \E s \in SessionSets, lit \in LiteralValues, rest \in ExtraArgs :
          BuildLiteral(s, lit, rest)
  \/ /\ Nestable
     /\ \E s \in SessionSets, item \in SubDecoders, rest \in ExtraArgs :
          BuildArray(s, item, rest)
  \/ /\ Nestable
     /\ \E s \in SessionSets, rest \in ExtraArgs :
          \E map \in Maps(s) : BuildObject(s, map, rest)
  \/ \E raw \in RawsFor(dec) : Decode(raw)

SpecExtra == Init /\ [][NextExtra]_vars

(***************************************************************************)
(* Vocabulary of the properties.                                           *)
(***************************************************************************)
Called == out # Idle

IsCallback(e) == e.op = "errorCallback"
IsParse(e) == e.op = "parse"
IsSubCall(e) == e.op = "call" /\ e.path # <<>>

\* the callback invocations of the last call, in order
Callbacks == SelectSeq(out.res.evs, IsCallback)

\* the invocations of sub-decoders (item, field, stage) of the last call
SubCalls == SelectSeq(out.res.evs, IsSubCall)

Returned(v) == out.res.st = "return" /\ out.res.val = v

\* the value a call returned, or Raised
Raised == [t |-> "raised"]
ValueOf(r) == IF r.st = "return" THEN r.val ELSE Raised

\* isValid(raw) of the descriptor returns true, returns false
Accepts(desc, raw) == isValid(desc, raw) = Value(TRUE)
Rejects(desc, raw) == isValid(desc, raw) = Value(FALSE)

\* new Error(message) for the message an expression returns; NoError when
\* the expression raises instead
NoError == [name |-> "none", message |-> ""]
ErrorOf(message) ==
  IF message.st = "return" THEN Error(message.val) ELSE NoError

\* the check the decoder makes on its own raw argument fails
OwnCheckFails(d, raw) ==
  CASE d.k = "decode"        -> Rejects(d.desc, raw)
    [] d.k = "decodeLiteral" -> ~StrictEquals(raw, d.literalValue)
    [] d.k = "decodeArray"   -> ~IsArray(raw)
    [] d.k = "decodeObject"  -> TypeOf(raw) # "object"
    [] OTHER                 -> FALSE

HasOwnCheck(d) ==
  d.k \in {"decode", "decodeLiteral", "decodeArray", "decodeObject"}

(***************************************************************************)
(* C1.  A decoder built by a createDecoder constructor called with no      *)
(* argument is strict: on a raw value its isValid rejects, one call        *)
(* invokes the error callback of its set exactly once, with an Error       *)
(* whose message is errorMsg(raw), does not call parse and, when the       *)
(* callback returns, returns undefined.                                    *)
(***************************************************************************)
C1_StrictDecoder ==
  \A c \in 1..Len(sets), desc \in Descriptors :
    (dec = decoder(c, desc, <<>>) /\ Called /\ Rejects(desc, out.raw)) =>
      /\ Len(Callbacks) = 1
      /\ Callbacks[1].config = c
      /\ Callbacks[1].error = ErrorOf(errorMsg(desc, out.raw))
      /\ Len(SelectSeq(out.res.evs, IsParse)) = 0
      /\ sets[c].errorCallback = "return" => Returned(Undefined)
      /\ sets[c].errorCallback = "throw" =>
           out.res.st = "throw" /\ out.res.err = Callbacks[1].error

(***************************************************************************)
(* C2.  A decoder built by a createDecoder constructor called with one     *)
(* argument d is defaulting: on an invalid raw value it returns d and      *)
(* never invokes the error callback; on a valid one it returns             *)
(* parse(raw), which is what the strict decoder returns.                   *)
(***************************************************************************)
C2_DefaultingDecoder ==
  \A c \in 1..Len(sets), desc \in Descriptors, rest \in DefaultArgs :
    (Len(rest) = 1 /\ dec = decoder(c, desc, rest) /\ Called) =>
      /\ Accepts(desc, out.raw) =>
           /\ Returned(parse(desc, out.raw).val)
           /\ Len(Callbacks) = 0
           /\ LET strict == Call(decoder(c, desc, <<>>), <<out.raw>>, <<>>)
              IN strict.st = "return" /\ strict.val = out.res.val
      /\ Rejects(desc, out.raw) =>
           /\ Returned(rest[1])
           /\ Len(Callbacks) = 0

C2_Witness ==
  /\ dec.k = "decode" /\ dec.hasDefault /\ dec.defaultValue = Str("d")
  /\ Called /\ Rejects(dec.desc, out.raw)
  /\ Returned(Str("d"))

(***************************************************************************)
(* C3.  Strict or defaulting is decided by the number of arguments of the  *)
(* constructor, not by the value of the default: a boolean, number,        *)
(* string, date, literalOf, array or object decoder constructed with an    *)
(* explicit undefined default returns undefined on a raw value its check   *)
(* rejects and does not invoke the error callback, and the same            *)
(* constructor called without a default invokes it.                        *)
(***************************************************************************)
BuiltWith(rest) ==
  \/ \E c \in 1..Len(sets), desc \in Descriptors :
       dec = decoder(c, desc, rest)
  \/ \E c \in 1..Len(sets), lit \in LiteralValues :
       dec = literal(c, <<lit>> \o rest)
  \/ /\ dec.k = "decodeArray"
     /\ \E c \in 1..Len(sets) : dec = array(c, <<dec.decoder>> \o rest)
  \/ /\ dec.k = "decodeObject"
     /\ \E c \in 1..Len(sets) : dec = object(c, <<dec.map>> \o rest)

\* dec is a boolean, number, string, date, literalOf, array or object
\* decoder
Named == dec.k = "decode" => dec.desc # "Custom"

C3_ArityDecides ==
  (/\ HasOwnCheck(dec) /\ Named
   /\ Called /\ OwnCheckFails(dec, out.raw)) =>
    /\ BuiltWith(<<Undefined>>) =>
         Returned(Undefined) /\ Len(Callbacks) = 0
    /\ BuiltWith(<<>>) =>
         /\ Len(Callbacks) = 1
         /\ Callbacks[1].config = dec.config
         /\ Callbacks[1].path = <<>>

(***************************************************************************)
(* C4.  On a raw value that is not an array, array(itemDecoder)(raw)       *)
(* invokes the error callback with the message "Array Decoder: Expected    *)
(* raw value to be an array but got: <raw>." and array(itemDecoder,        *)
(* default)(raw) returns default without invoking it; the item decoder is  *)
(* not called in either case.                                              *)
(***************************************************************************)
C4_NonArrayRaw ==
  (dec.k = "decodeArray" /\ Called /\ ~IsArray(out.raw)) =>
    /\ Len(SubCalls) = 0
    /\ BuiltWith(<<>>) =>
         /\ Len(Callbacks) = 1
         /\ Callbacks[1].config = dec.config
         /\ Callbacks[1].error.name = "Error"
         /\ Callbacks[1].error.message =
              "Array Decoder: Expected raw value to be an array but got: "
                \o ToStr(out.raw) \o "."
    /\ \A rest \in DefaultArgs :
         (Len(rest) = 1 /\ BuiltWith(rest)) =>
           Returned(rest[1]) /\ Len(Callbacks) = 0

(***************************************************************************)
(* C5.  On an array raw and an item decoder that does not fail,            *)
(* array(itemDecoder)(raw) returns a sequence as long as raw whose         *)
(* element at each index is itemDecoder applied to the element of raw at   *)
(* that index; the item decoder is applied to the elements in ascending    *)
(* index order, none skipped, duplicated or reordered.                     *)
(***************************************************************************)
IsItemCall(e) == e.op = "call" /\ e.path = <<1>>

C5_ArrayMapsInOrder ==
  (/\ dec.k = "decodeArray" /\ Called /\ IsArray(out.raw)
   /\ out.res.st = "return" /\ Len(Callbacks) = 0) =>
    LET n == Len(out.raw.items)
        v == out.res.val
        itemCalls == SelectSeq(out.res.evs, IsItemCall)
    IN /\ v.t = "array"
       /\ Len(v.items) = n
       /\ \A i \in 1..n :
            v.items[i] =
              ValueOf(Call(dec.decoder, <<out.raw.items[i]>>, <<>>))
       /\ Len(itemCalls) = n
       /\ \A i \in 1..n : itemCalls[i].args[1] = out.raw.items[i]

C5_Witness ==
  /\ dec.k = "decodeArray" /\ Called /\ IsArray(out.raw)
  /\ out.res.st = "return" /\ Len(Callbacks) = 0
  /\ Len(out.raw.items) = 2
  /\ out.raw.items[1] # out.raw.items[2]
  /\ out.res.val.items[1] # out.res.val.items[2]

(***************************************************************************)
(* C6.  When the item decoder fails on the element at index i of an        *)
(* array, the error that reaches the error callback, and is raised when    *)
(* the callback raises, has the message "Array Decoder: Item '<i>' failed  *)
(* with: \"<inner error string>\"", with the zero-based index and the      *)
(* inner decoder's message.                                                *)
(***************************************************************************)
\* `${error}` of an Error
ErrorString(error) == error.name \o ": " \o error.message

StrictItem == dec.decoder.k = "decode" /\ ~dec.decoder.hasDefault

ItemFails(i) == Rejects(dec.decoder.desc, out.raw.items[i])

FirstFailingItem ==
  CHOOSE i \in 1..Len(out.raw.items) :
    ItemFails(i) /\ \A j \in 1..(i - 1) : ~ItemFails(j)

C6_ArrayWrapsItemError ==
  (/\ dec.k = "decodeArray" /\ Called /\ IsArray(out.raw)
   /\ StrictItem
   /\ \E i \in 1..Len(out.raw.items) : ItemFails(i)) =>
    LET i == FirstFailingItem
        inner == ErrorOf(errorMsg(dec.decoder.desc, out.raw.items[i]))
        wrapped == "Array Decoder: Item '" \o ToString(i - 1)
                     \o "' failed with: \"" \o ErrorString(inner) \o "\""
    IN /\ \E k \in 1..Len(Callbacks) :
            Callbacks[k].error.message = wrapped
       /\ out.res.st = "throw" => out.res.err.message = wrapped

(***************************************************************************)
(* C7.  On a raw object and a field mapping M whose field decoders do not  *)
(* fail, object(M)(raw) returns a record whose key set is the key set of   *)
(* M, the value at each key k being M[k]'s decoder applied to raw[M[k]'s   *)
(* source key]; keys of raw that M does not name have no effect.           *)
(* object({a: ['A', number()], b: ['B', string()]})({A: '5', B: 'x'}) is   *)
(* {a: 5, b: 'x'}.                                                         *)
(***************************************************************************)
IsExampleMapping ==
  /\ dec.k = "decodeObject" /\ Len(dec.map) = 2
  /\ dec.map[1].key = "a" /\ dec.map[1].rawKey = "A"
  /\ dec.map[1].decoder.k = "decode" /\ dec.map[1].decoder.desc = "Number"
  /\ ~dec.map[1].decoder.hasDefault
  /\ dec.map[2].key = "b" /\ dec.map[2].rawKey = "B"
  /\ dec.map[2].decoder.k = "decode" /\ dec.map[2].decoder.desc = "String"
  /\ ~dec.map[2].decoder.hasDefault

ExampleRaw == Obj([A |-> Str("5"), B |-> Str("x")])

C7_ObjectMapsFields ==
  /\ (/\ dec.k = "decodeObject" /\ Called /\ out.raw.t = "object"
      /\ out.res.st = "return" /\ Len(Callbacks) = 0) =>
       LET m == dec.map
           v == out.res.val
           raw == out.raw
           named == {m[i].rawKey : i \in 1..Len(m)}
           trimmed == Obj([k \in DOMAIN raw.fields \cap named |->
                             raw.fields[k]])
       IN /\ v.t = "object"
          /\ DOMAIN v.fields = {m[i].key : i \in 1..Len(m)}
          /\ \A i \in 1..Len(m) :
               v.fields[m[i].key] =
                 ValueOf(Call(m[i].decoder,
                              <<Index(raw, m[i].rawKey)>>, <<>>))
          /\ ValueOf(Call(dec, <<trimmed>>, <<>>)) = v
  /\ (IsExampleMapping /\ Called /\ out.raw = ExampleRaw) =>
       Returned(Obj([a |-> Num(5), b |-> Str("x")]))

C7_Witness ==
  /\ IsExampleMapping /\ Called
  /\ out.raw = Obj([A |-> Str("5"), B |-> Str("x"), Z |-> Str("5")])
  /\ Returned(Obj([a |-> Num(5), b |-> Str("x")]))

(***************************************************************************)
(* C8.  When a source key named by the mapping is absent from the raw      *)
(* object, the object decoder calls that field's decoder with undefined    *)
(* (once the fields before it have been decoded): a strict number() or     *)
(* string() field decoder then fails through the error callback, and a     *)
(* defaulting field decoder yields its default as the value of that field  *)
(* while the other fields are decoded normally.                            *)
(***************************************************************************)
\* raw[rawKey] of the raw of the last call
RawProp(rawKey) == Index(out.raw, rawKey)

\* the decode of field i on its own
FieldAlone(i) == Call(dec.map[i].decoder, <<RawProp(dec.map[i].rawKey)>>, <<>>)

\* no field before field i raised
FieldReached(i) == \A j \in 1..(i - 1) : FieldAlone(j).st = "return"

FieldCalls(i) ==
  LET IsFieldCall(e) == e.op = "call" /\ e.path = <<i>>
  IN SelectSeq(out.res.evs, IsFieldCall)

FieldCallbacks(i) ==
  LET IsFieldCallback(e) == e.op = "errorCallback" /\ e.path = <<i>>
  IN SelectSeq(out.res.evs, IsFieldCallback)

C8_AbsentKeyIsUndefined ==
  (dec.k = "decodeObject" /\ Called /\ out.raw.t = "object") =>
    \A i \in 1..Len(dec.map) :
      (dec.map[i].rawKey \notin DOMAIN out.raw.fields /\ FieldReached(i)) =>
        LET f == dec.map[i].decoder IN
        /\ Len(FieldCalls(i)) = 1
        /\ FieldCalls(i)[1].args = <<Undefined>>
        /\ (f.k = "decode" /\ ~f.hasDefault
              /\ f.desc \in {"Number", "String"}) =>
             /\ Len(FieldCallbacks(i)) = 1
             /\ FieldCallbacks(i)[1].config = f.config
             /\ FieldCallbacks(i)[1].error =
                  ErrorOf(errorMsg(f.desc, Undefined))
             /\ sets[f.config].errorCallback = "throw" =>
                  out.res.st = "throw"
                    /\ out.res.err = FieldCallbacks(i)[1].error
        /\ (f.k = "decode" /\ f.hasDefault
              /\ f.desc \in {"Number", "String"}) =>
             /\ Len(FieldCallbacks(i)) = 0
             /\ out.res.st = "return" =>
                  /\ out.res.val.fields[dec.map[i].key] = f.defaultValue
                  /\ \A j \in 1..Len(dec.map) :
                       out.res.val.fields[dec.map[j].key] =
                         ValueOf(FieldAlone(j))

(***************************************************************************)
(* C9.  When the decoder of output field f mapped from raw key s fails     *)
(* inside an object decode, the error that reaches the error callback has  *)
(* the message "Object Decoder: Attempted to decode property '<f>' from    *)
(* raw key '<s>' but failed with: \"<inner error string>\"".               *)
(***************************************************************************)
FieldFails(i) ==
  LET f == dec.map[i].decoder IN
  /\ f.k = "decode" /\ ~f.hasDefault
  /\ Rejects(f.desc, RawProp(dec.map[i].rawKey))

C9_ObjectWrapsFieldError ==
  (dec.k = "decodeObject" /\ Called /\ out.raw.t = "object") =>
    \A i \in 1..Len(dec.map) :
      (FieldFails(i) /\ FieldReached(i)) =>
        LET f == dec.map[i].decoder
            inner == ErrorOf(errorMsg(f.desc, RawProp(dec.map[i].rawKey)))
            wrapped == "Object Decoder: Attempted to decode property '"
                         \o dec.map[i].key \o "' from raw key '"
                         \o dec.map[i].rawKey \o "' but failed with: \""
                         \o ErrorString(inner) \o "\""
        IN /\ \E k \in 1..Len(Callbacks) :
                Callbacks[k].error.message = wrapped
           /\ out.res.st = "throw" => out.res.err.message = wrapped

(***************************************************************************)
(* C10.  On a raw value that is a number, a boolean, a string or           *)
(* undefined, object(M)(raw) invokes the error callback exactly once,      *)
(* with the message "Object Decoder: Expected raw value to be an object    *)
(* but got: <raw>.", and object(M, default)(raw) returns default without   *)
(* invoking it; no field decoder of M is called in either case.            *)
(***************************************************************************)
C10_NonObjectRaw ==
  (/\ dec.k = "decodeObject" /\ Called
   /\ TypeOf(out.raw) \in {"number", "boolean", "string", "undefined"}) =>
    /\ Len(SubCalls) = 0
    /\ BuiltWith(<<>>) =>
         /\ Len(Callbacks) = 1
         /\ Callbacks[1].config = dec.config
         /\ Callbacks[1].error.name = "Error"
         /\ Callbacks[1].error.message =
              "Object Decoder: Expected raw value to be an object but got: "
                \o ToStr(out.raw) \o "."
    /\ \A rest \in DefaultArgs :
         (Len(rest) = 1 /\ BuiltWith(rest)) =>
           Returned(rest[1]) /\ Len(Callbacks) = 0

C10_Witness ==
  /\ dec.k = "decodeObject" /\ Len(dec.map) = 2 /\ BuiltWith(<<>>)
  /\ Called /\ out.raw = Str("b")
  /\ Len(Callbacks) = 1
  /\ Callbacks[1].error.message =
       "Object Decoder: Expected raw value to be an object but got: b."

(***************************************************************************)
(* C11.  No decoder raises an error of its own: for every decoder and      *)
(* every raw value, null and undefined included, a decode call either      *)
(* returns a value or is ended by the error the error callback raised.     *)
(***************************************************************************)
\* the call was ended by its last callback invocation raising the error
\* it was given
RaisedByCallback ==
  /\ out.res.st = "throw"
  /\ Len(Callbacks) > 0
  /\ LET last == Callbacks[Len(Callbacks)]
     IN /\ sets[last.config].errorCallback = "throw"
        /\ out.res.err = last.error

C11_NoOwnError ==
  Called => (out.res.st = "return" \/ RaisedByCallback)

(***************************************************************************)
(* C12.  As claimed: pipe(d1, ..., dn)(raw) calls each stage exactly once  *)
(* in the order given, d1 on raw and each later stage on the value         *)
(* returned by the stage before it, and returns the value returned by dn;  *)
(* with a single decoder, pipe(d)(raw) returns d(raw) and causes exactly   *)
(* the callback invocations d(raw) causes.                                 *)
(***************************************************************************)
IsStageCall(e) == e.op = "call" /\ Len(e.path) = 1

\* the invocations of the stages of the last call, in order
StageCalls == SelectSeq(out.res.evs, IsStageCall)

\* the callback invocations of a result: which set's callback, which error
CallbackList(r) ==
  LET cbs == SelectSeq(r.evs, IsCallback)
  IN [k \in 1..Len(cbs) |-> <<cbs[k].config, cbs[k].error>>]

RECURSIVE StageAlone(_)
RECURSIVE StageInput(_)
RECURSIVE StageReached(_)
RECURSIVE LastStage(_)

\* the value stage i is due: raw, or what stage i - 1 returns on its own
StageInput(i) == IF i = 1 THEN out.raw ELSE StageAlone(i - 1).val

\* stage i called on its own on the value it is due
StageAlone(i) == Call(dec.allDecoders[i], <<StageInput(i)>>, <<>>)

\* every stage before stage i returns
StageReached(i) ==
  IF i = 1 THEN TRUE
  ELSE StageReached(i - 1) /\ StageAlone(i - 1).st = "return"

\* pipe(d)(raw) does what d(raw) does
SingleStage ==
  LET alone == Call(dec.allDecoders[1], <<out.raw>>, <<>>)
  IN /\ out.res.st = alone.st
     /\ ValueOf(out.res) = ValueOf(alone)
     /\ out.res.st = "throw" => out.res.err = alone.err
     /\ CallbackList(out.res) = CallbackList(alone)

C12_EveryStageOnce ==
  (dec.k = "pipeDecode" /\ Called) =>
    LET n == Len(dec.allDecoders)
        calls == StageCalls
    IN /\ Len(calls) = n
       /\ \A i \in 1..n :
            /\ calls[i].path = <<i>>
            /\ calls[i].args = <<StageInput(i)>>
       /\ out.res.st = "return"
       /\ out.res.val = StageAlone(n).val
       /\ n = 1 => SingleStage

(***************************************************************************)
(* C12, amended.  pipe(d1, ..., dn)(raw) calls the stages in the order     *)
(* given, each once, d1 on raw and each later stage on the value returned  *)
(* by the stage before it, up to and including the first stage whose call  *)
(* raises, and raises what that stage raised; when no stage raises it      *)
(* calls every stage and returns the value returned by dn.  pipe(d)(raw)   *)
(* returns or raises what d(raw) does and causes exactly the callback      *)
(* invocations d(raw) causes.                                              *)
(***************************************************************************)
\* the first stage from stage i on whose call raises, or the last stage
LastStage(i) ==
  IF i >= Len(dec.allDecoders) \/ StageAlone(i).st = "throw" THEN i
  ELSE LastStage(i + 1)

C12_PipeFeedsStages ==
  (dec.k = "pipeDecode" /\ Called) =>
    LET n == Len(dec.allDecoders)
        calls == StageCalls
        last == LastStage(1)
    IN /\ Len(calls) = last
       /\ \A i \in 1..last :
            /\ calls[i].path = <<i>>
            /\ calls[i].args = <<StageInput(i)>>
       /\ IF StageAlone(last).st = "throw"
          THEN out.res.st = "throw" /\ out.res.err = StageAlone(last).err
          ELSE last = n /\ Returned(StageAlone(n).val)
       /\ n = 1 => SingleStage

\* the first stage fails and its callback returns, the second is given
\* undefined and its callback raises, the third is not called
C12_Witness ==
  /\ dec.k = "pipeDecode" /\ Len(dec.allDecoders) = 3
  /\ Called /\ out.raw = Str("b")
  /\ Len(StageCalls) = 2
  /\ StageCalls[2].args = <<Undefined>>
  /\ Len(Callbacks) = 2
  /\ out.res.st = "throw"

(***************************************************************************)
(* C13.  As claimed: pipe(number(), string(), literalOf(10)) applied to    *)
(* the raw string '10' returns the value 10 and does not invoke the error  *)
(* callback.                                                               *)
(***************************************************************************)
\* dec is pipe(a(), b(), literalOf(10)) for the descriptors a and b
IsLiteralPipe(a, b) ==
  /\ dec.k = "pipeDecode"
  /\ \E c1 \in 1..Len(sets), c2 \in 1..Len(sets), c3 \in 1..Len(sets) :
       dec = pipe(<<decoder(c1, a, <<>>), decoder(c2, b, <<>>),
                    literal(c3, <<Num(10)>>)>>)

C13_PipeYieldsTen ==
  (IsLiteralPipe("Number", "String") /\ Called /\ out.raw = Str("10")) =>
    Returned(Num(10)) /\ Len(Callbacks) = 0

(***************************************************************************)
(* C13, amended.  pipe(string(), number(), literalOf(10)) applied to the   *)
(* raw string '10' returns the value 10 and does not invoke the error      *)
(* callback; with the stages in the order number(), string(),              *)
(* literalOf(10) the literal stage is handed the string '10', which is     *)
(* not strictly equal to 10, and the error callback of its set is invoked  *)
(* once, with "Literal Decoder: Expected raw value to be number:10 but     *)
(* got: string:10.".                                                       *)
(***************************************************************************)
C13_LiteralAfterNumber ==
  /\ (IsLiteralPipe("String", "Number") /\ Called /\ out.raw = Str("10")) =>
       Returned(Num(10)) /\ Len(Callbacks) = 0
  /\ (IsLiteralPipe("Number", "String") /\ Called /\ out.raw = Str("10")) =>
       /\ Len(Callbacks) = 1
       /\ Callbacks[1].path = <<3>>
       /\ Callbacks[1].config = dec.allDecoders[3].config
       /\ Callbacks[1].error.message =
            "Literal Decoder: Expected raw value to be number:10 "
              \o "but got: string:10."
       /\ ~Returned(Num(10))

C13_Witness ==
  /\ IsLiteralPipe("String", "Number")
  /\ Called /\ out.raw = Str("10")
  /\ Returned(Num(10)) /\ Len(Callbacks) = 0

(***************************************************************************)
(* C14.  pipe(number(), string(), literalOf(10)) applied to the raw        *)
(* string '11' invokes the error callback exactly once, with the literal   *)
(* decoder's message: the number and string stages succeed, and the error  *)
(* the callback gets, and the call raises when the callback raises, is     *)
(* the literal decoder's own, with no context added by pipe.               *)
(***************************************************************************)
StageParses(i) ==
  LET IsStageParse(e) == e.op = "parse" /\ e.path = <<i>>
  IN SelectSeq(out.res.evs, IsStageParse)

C14_LiteralStageFails ==
  (IsLiteralPipe("Number", "String") /\ Called /\ out.raw = Str("11")) =>
    LET lit == dec.allDecoders[3]
        own == Error("Literal Decoder: Expected raw value to be number:10 "
                       \o "but got: string:11.")
    IN /\ Len(Callbacks) = 1
       /\ Callbacks[1].path = <<3>>
       /\ Callbacks[1].config = lit.config
       /\ Callbacks[1].error = own
       /\ Len(StageParses(1)) = 1 /\ Len(StageParses(2)) = 1
       /\ StageCalls[2].args = <<Num(11)>>
       /\ StageCalls[3].args = <<Str("11")>>
       /\ sets[lit.config].errorCallback = "throw" =>
            out.res.st = "throw" /\ out.res.err = own
       /\ sets[lit.config].errorCallback = "return" => Returned(Undefined)

C14_Witness ==
  /\ IsLiteralPipe("Number", "String")
  /\ Called /\ out.raw = Str("11")
  /\ Len(Callbacks) = 1
  /\ out.res.st = "throw"
  /\ out.res.err.message =
       "Literal Decoder: Expected raw value to be number:10 "
         \o "but got: string:11."

(***************************************************************************)
(* C15.  A decoder produced by type() returns its raw argument unchanged   *)
(* for every raw value and never invokes the error callback of any         *)
(* decoder set; so does an array of type() items on an array.              *)
(***************************************************************************)
C15_TypePassesThrough ==
  /\ (dec = type /\ Called) =>
       /\ Returned(out.raw)
       /\ Len(Callbacks) = 0
       /\ Len(out.res.evs) = 1
  /\ (dec.k = "decodeArray" /\ dec.decoder = type
        /\ Called /\ IsArray(out.raw)) =>
       Returned(out.raw) /\ Len(Callbacks) = 0

C15_Witness ==
  /\ dec = type /\ Called /\ Len(sets) = 2
  /\ out.raw = Obj([A |-> Str("5"), B |-> Str("x")])
  /\ Returned(out.raw)

(***************************************************************************)
(* C16.  Configuration isolation: with two decoder sets whose error        *)
(* callbacks differ, every callback invocation a failing check causes is   *)
(* made on the callback of the set the failing decoder was built from,     *)
(* never on the other set's, also when decoders of the two sets are        *)
(* nested inside each other's array, object or pipe.                       *)
(***************************************************************************)
RECURSIVE DecoderAt(_, _)

\* the decoder at a position inside decoder d
DecoderAt(d, path) ==
  IF path = <<>> THEN d
  ELSE CASE d.k = "decodeArray"  -> DecoderAt(d.decoder, Tail(path))
         [] d.k = "decodeObject" ->
              DecoderAt(d.map[Head(path)].decoder, Tail(path))
         [] d.k = "pipeDecode"   ->
              DecoderAt(d.allDecoders[Head(path)], Tail(path))

C16_ConfigurationIsolation ==
  Called =>
    \A k \in 1..Len(Callbacks) :
      LET e == Callbacks[k]
          d == DecoderAt(dec, e.path)
      IN /\ HasOwnCheck(d)
         /\ e.config = d.config
         /\ k < Len(Callbacks) => sets[d.config].errorCallback = "return"
         /\ sets[d.config].errorCallback = "throw" =>
              out.res.st = "throw" /\ out.res.err = e.error

C16_Witness ==
  /\ Len(sets) = 2
  /\ sets[1].errorCallback # sets[2].errorCallback
  /\ dec.k = "decodeObject" /\ dec.config = 1 /\ Called
  /\ Len(Callbacks) = 2
  /\ Callbacks[1].config = 2 /\ Callbacks[1].path = <<1>>
  /\ Callbacks[2].config = 1 /\ Callbacks[2].path = <<2>>
  /\ out.res.st = "throw"

(***************************************************************************)
(* C17.  With the default configuration (the exported Decode set, which    *)
(* is configure called with no argument) a failing strict decode raises    *)
(* the constructed Error out of the decode call: the call returns no       *)
(* value and the raised error's message is the decoder's failure message.  *)
(***************************************************************************)
\* the message of the failure of decoder d's own check on raw
FailureMessage(d, raw) ==
  CASE d.k = "decode" -> ErrorOf(errorMsg(d.desc, raw)).message
    [] d.k = "decodeLiteral" ->
         "Literal Decoder: Expected raw value to be "
           \o TypeOf(d.literalValue) \o ":" \o ToStr(d.literalValue)
           \o " but got: " \o TypeOf(raw) \o ":" \o ToStr(raw) \o "."
    [] d.k = "decodeArray" ->
         "Array Decoder: Expected raw value to be an array but got: "
           \o ToStr(raw) \o "."
    [] d.k = "decodeObject" ->
         "Object Decoder: Expected raw value to be an object but got: "
           \o ToStr(raw) \o "."

C17_DefaultConfigurationRaises ==
  (/\ HasOwnCheck(dec) /\ dec.config = DefaultSet /\ BuiltWith(<<>>)
   /\ Called /\ OwnCheckFails(dec, out.raw)) =>
    /\ out.res.st = "throw"
    /\ out.res.err.name = "Error"
    /\ out.res.err.message = FailureMessage(dec, out.raw)
    /\ "val" \notin DOMAIN out.res

(***************************************************************************)
(* C18.  As claimed: for every decoder instance and raw value, two calls   *)
(* in a row with the same valid input return structurally equal results,   *)
(* and two calls with the same invalid input (strict, callback returning   *)
(* normally) invoke the error callback exactly once in each call with the  *)
(* same message; the second call's outcome does not depend on the first    *)
(* call having happened.                                                   *)
(***************************************************************************)
BothDone == tasks[1].pc = "done" /\ tasks[2].pc = "done"

\* the second call was made after the first had returned or raised
InARow == BothDone /\ ~tasks[2].overlapped

\* the two calls have one outcome, that of a single call: the value or
\* the error, and the callback invocations
SameOutcome ==
  LET r1 == tasks[1].res
      r2 == tasks[2].res
  IN /\ r1.st = r2.st
     /\ ValueOf(r1) = ValueOf(r2)
     /\ r1.st = "throw" => r1.err = r2.err
     /\ CallbackList(r1) = CallbackList(r2)
     /\ r2 = Call(dec, <<tasks[1].raw>>, <<>>)

\* the sets whose error callback a call of decoder d can invoke
RECURSIVE ConfigsOf(_)
ConfigsOf(d) ==
  CASE d.k \in {"decode", "decodeLiteral"} -> {d.config}
    [] d.k = "decodeArray" -> {d.config} \cup ConfigsOf(d.decoder)
    [] d.k = "decodeObject" ->
         {d.config}
           \cup UNION {ConfigsOf(d.map[i].decoder) : i \in 1..Len(d.map)}
    [] d.k = "pipeDecode" ->
         UNION {ConfigsOf(d.allDecoders[i]) : i \in 1..Len(d.allDecoders)}
    [] OTHER -> {}

\* raw is an invalid input of decoder d: a check made without a default
\* does not accept what it is given, be it the check of d or that of a
\* decoder d calls
RECURSIVE Invalid(_, _)
RECURSIVE InvalidFrom(_, _, _)
Invalid(d, raw) ==
  CASE d.k = "decode" -> ~d.hasDefault /\ ~Accepts(d.desc, raw)
    [] d.k = "decodeLiteral" -> ~d.hasDefault /\ OwnCheckFails(d, raw)
    [] d.k = "decodeArray" ->
         IF ~IsArray(raw) THEN ~d.hasDefault
         ELSE \E i \in 1..Len(Items(raw)) : Invalid(d.decoder, Items(raw)[i])
    [] d.k = "decodeObject" ->
         IF TypeOf(raw) # "object" THEN ~d.hasDefault
         ELSE \/ raw.t = "null"
              \/ \E i \in 1..Len(d.map) :
                   Invalid(d.map[i].decoder, Index(raw, d.map[i].rawKey))
    [] d.k = "pipeDecode" -> InvalidFrom(d.allDecoders, 1, raw)
    [] OTHER -> FALSE

\* v is an invalid input of stage i, or what the stage makes of it is one
\* of a later stage
InvalidFrom(stages, i, v) ==
  \/ Invalid(stages[i], v)
  \/ /\ i < Len(stages)
     /\ Call(stages[i], <<v>>, <<>>).st = "return"
     /\ InvalidFrom(stages, i + 1, Call(stages[i], <<v>>, <<>>).val)

C18_OncePerCall ==
  (InARow /\ tasks[1].raw = tasks[2].raw) =>
    /\ SameOutcome
    /\ (/\ Invalid(dec, tasks[1].raw)
        /\ \A s \in ConfigsOf(dec) : sets[s].errorCallback = "return") =>
         /\ Len(CallbackList(tasks[1].res)) = 1
         /\ Len(CallbackList(tasks[2].res)) = 1
         /\ CallbackList(tasks[1].res) = CallbackList(tasks[2].res)

(***************************************************************************)
(* C18, amended.  Idempotence: for every decoder instance and raw value,   *)
(* two calls in a row with the same input have the same outcome, that of   *)
(* a single call: structurally equal results when they return, the same    *)
(* error when they raise, and in each call the same error callback         *)
(* invocations, in the same order and with the same messages.  When the    *)
(* callback returns normally, a strict decoder whose own validity check    *)
(* rejects the input invokes it exactly once in each call, with its        *)
(* failure message, if that message can be built, and not at all if        *)
(* building the message raises, each call then raising a TypeError; a      *)
(* decoder whose own check passes invokes it as often as a single call     *)
(* does, which is more than once when several checks of its sub-decoders   *)
(* fail.                                                                   *)
(***************************************************************************)
\* the message of the failure of d's own check on raw can be built
Builds(d, raw) ==
  CASE d.k = "decode" -> errorMsg(d.desc, raw).st = "return"
    [] d.k = "decodeLiteral" ->
         String(d.literalValue).st = "return" /\ String(raw).st = "return"
    [] OTHER -> String(raw).st = "return"

C18_Idempotent ==
  (InARow /\ tasks[1].raw = tasks[2].raw) =>
    LET raw == tasks[1].raw
        r1 == tasks[1].res
        r2 == tasks[2].res
    IN /\ SameOutcome
       /\ (/\ HasOwnCheck(dec) /\ ~dec.hasDefault
           /\ OwnCheckFails(dec, raw)
           /\ sets[dec.config].errorCallback = "return") =>
            IF Builds(dec, raw)
            THEN /\ CallbackList(r1) =
                      <<<<dec.config, Error(FailureMessage(dec, raw))>>>>
                 /\ CallbackList(r2) = CallbackList(r1)
                 /\ r1.st = "return" /\ r2.st = "return"
            ELSE /\ CallbackList(r1) = <<>> /\ CallbackList(r2) = <<>>
                 /\ r1.st = "throw" /\ r1.err.name = "TypeError"
                 /\ r2.st = "throw" /\ r2.err = r1.err

\* a pipe whose two strict stages both fail: two callback invocations in
\* each of the two calls
C18_Witness ==
  /\ InARow /\ dec.k = "pipeDecode"
  /\ tasks[1].raw = Str("b")
  /\ tasks[2].raw = tasks[1].raw
  /\ tasks[2].res.st = "return"
  /\ Len(CallbackList(tasks[1].res)) = 2
  /\ Len(CallbackList(tasks[2].res)) = 2
  /\ tasks[1].res = tasks[2].res

(***************************************************************************)
(* C19.  Two calls of one array, object or pipe decoder whose iterations   *)
(* interleave (the second call made while the first is between two         *)
(* iterations) each return or raise what they do when run alone and cause  *)
(* the callback invocations they cause when run alone.                     *)
(***************************************************************************)
C19_InterleavedCalls ==
  (tasks[2] # NotStarted /\ tasks[2].overlapped) =>
    \A t \in 1..2 :
      tasks[t].pc = "done" =>
        tasks[t].res = Call(dec, <<tasks[t].raw>>, <<>>)

C19_Witness ==
  /\ BothDone /\ tasks[2].overlapped
  /\ dec.k = "decodeObject" /\ Len(dec.map) = 2
  /\ tasks[1].raw = Obj([A |-> Str("5"), B |-> Str("x")])
  /\ tasks[2].raw = Obj([B |-> Str("x")])
  /\ tasks[1].res.st = "return"
  /\ tasks[1].res.val = Obj([a |-> Num(5), b |-> Str("x")])
  /\ tasks[2].res.st = "return"
  /\ tasks[2].res.val = Obj([a |-> Str("d"), b |-> Str("x")])

(***************************************************************************)
(* C20.  The boolean decoder, strict or defaulting, returns true for       *)
(* every raw value in {true, 'true', 1, '1'} and false for every raw       *)
(* value in {false, 'false', 0, '0', null, undefined}, without invoking    *)
(* the error callback; on a raw value whose string form is none of         *)
(* 'true', 'false', '1', '0', 'null', 'undefined', such as 999, the        *)
(* strict decoder invokes the callback with "Boolean Decoder: Expected     *)
(* raw value to be a boolean but got: <raw>.".                             *)
(***************************************************************************)
TrueRaws == {Bool(TRUE), Str("true"), Num(1), Str("1")}
FalseRaws == {Bool(FALSE), Str("false"), Num(0), Str("0"), Null, Undefined}

IsBooleanDecoder == dec.k = "decode" /\ dec.desc = "Boolean"

C20_BooleanDecoder ==
  (IsBooleanDecoder /\ Called) =>
    /\ out.raw \in TrueRaws =>
         Returned(Bool(TRUE)) /\ Len(Callbacks) = 0
    /\ out.raw \in FalseRaws =>
         Returned(Bool(FALSE)) /\ Len(Callbacks) = 0
    /\ (/\ ~dec.hasDefault
        /\ String(out.raw).st = "return"
        /\ ToStr(out.raw) \notin
             {"true", "false", "1", "0", "null", "undefined"}) =>
         /\ Len(Callbacks) = 1
         /\ Callbacks[1].config = dec.config
         /\ Callbacks[1].error.message =
              "Boolean Decoder: Expected raw value to be a boolean but got: "
                \o ToStr(out.raw) \o "."
    /\ (~dec.hasDefault /\ out.raw = Num(999)) =>
         /\ Len(Callbacks) = 1
         /\ Callbacks[1].error.message =
              "Boolean Decoder: Expected raw value to be a boolean "
                \o "but got: 999."

C20_Witness ==
  /\ IsBooleanDecoder /\ ~dec.hasDefault
  /\ Called /\ out.raw = Str("0")
  /\ Returned(Bool(FALSE)) /\ Len(Callbacks) = 0

(***************************************************************************)
(* C21.  For the date decoder, strict or defaulting, each of the strings   *)
(* '2018-02-15 00:00:00' and '2018-02-15T00:00:00' followed by any of the  *)
(* suffixes '', 'Z', '.123' and '.123Z' is valid input: the decoder        *)
(* returns a Date for it and neither invokes the error callback nor        *)
(* returns the default.                                                    *)
(***************************************************************************)
IsDateDecoder == dec.k = "decode" /\ dec.desc = "Date"

C21_DateTimeSuffixes ==
  (IsDateDecoder /\ Called /\ out.raw \in DateTimeRaws) =>
    /\ out.res.st = "return"
    /\ out.res.val = DateOf(2018, 1, 15)
    /\ Len(Callbacks) = 0

(***************************************************************************)
(* C22.  Every failure of a built-in decoder's own validity check passes   *)
(* the callback an Error whose message is exactly "<Kind> Decoder:         *)
(* Expected raw value to be <expectation> but got: <raw as string>.",      *)
(* with Kind/expectation Boolean/'a boolean', Number/'a number',           *)
(* String/'a string', Date/'an ISO date string', Array/'an array',         *)
(* Object/'an object', and for literalOf Kind 'Literal', expectation       *)
(* '<typeof literal>:<literal>' and got-part '<typeof raw>:<raw>'.         *)
(***************************************************************************)
IsBuiltIn(d) ==
  \/ d.k \in {"decodeLiteral", "decodeArray", "decodeObject"}
  \/ d.k = "decode" /\ d.desc \in {"Boolean", "Number", "String", "Date"}

Kind(d) ==
  CASE d.k = "decode"        -> d.desc
    [] d.k = "decodeLiteral" -> "Literal"
    [] d.k = "decodeArray"   -> "Array"
    [] d.k = "decodeObject"  -> "Object"

Expectation(d) ==
  CASE d.k = "decode" /\ d.desc = "Boolean" -> "a boolean"
    [] d.k = "decode" /\ d.desc = "Number"  -> "a number"
    [] d.k = "decode" /\ d.desc = "String"  -> "a string"
    [] d.k = "decode" /\ d.desc = "Date"    -> "an ISO date string"
    [] d.k = "decodeArray"                  -> "an array"
    [] d.k = "decodeObject"                 -> "an object"
    [] d.k = "decodeLiteral" ->
         TypeOf(d.literalValue) \o ":" \o ToStr(d.literalValue)

GotPart(d, raw) ==
  IF d.k = "decodeLiteral"
  THEN TypeOf(raw) \o ":" \o ToStr(raw)
  ELSE ToStr(raw)

C22_MessageGrammar ==
  /\ (/\ IsBuiltIn(dec) /\ ~dec.hasDefault
      /\ Called /\ OwnCheckFails(dec, out.raw)) =>
       /\ Len(Callbacks) = 1
       /\ Callbacks[1].error.name = "Error"
       /\ Callbacks[1].error.message =
            Kind(dec) \o " Decoder: Expected raw value to be "
              \o Expectation(dec) \o " but got: "
              \o GotPart(dec, out.raw) \o "."
  /\ (/\ dec.k = "decodeLiteral" /\ dec.literalValue = Str("1")
      /\ ~dec.hasDefault /\ Called /\ out.raw = Num(1)) =>
       /\ Len(Callbacks) = 1
       /\ Callbacks[1].error.message =
            "Literal Decoder: Expected raw value to be string:1 "
              \o "but got: number:1."

(***************************************************************************)
(* C23.  A default given to array or object covers only the combinator's   *)
(* own structural check.  When raw is an array (an object) and a strict    *)
(* item (field) decoder fails on an element (a property) it is handed,     *)
(* the error callback of that decoder is invoked and the call does not     *)
(* return the combinator's default: it raises, or returns the array        *)
(* (object) with undefined at that position.  A defaulting item (field)    *)
(* decoder yields its own default at that position and invokes no          *)
(* callback.                                                               *)
(***************************************************************************)
\* the element at index i on its own
ItemAlone(i) == Call(dec.decoder, <<out.raw.items[i]>>, <<>>)

\* no element before element i raised
ItemReached(i) == \A j \in 1..(i - 1) : ItemAlone(j).st = "return"

ItemCallbacks ==
  LET IsItemCallback(e) == e.op = "errorCallback" /\ e.path = <<1>>
  IN SelectSeq(out.res.evs, IsItemCallback)

C23_DefaultCoversOwnCheckOnly ==
  /\ (/\ dec.k = "decodeArray" /\ dec.hasDefault
      /\ Called /\ IsArray(out.raw) /\ HasOwnCheck(dec.decoder)) =>
       \A i \in 1..Len(out.raw.items) :
         (OwnCheckFails(dec.decoder, out.raw.items[i]) /\ ItemReached(i)) =>
           IF ~dec.decoder.hasDefault
           THEN /\ \E k \in 1..Len(ItemCallbacks) :
                     /\ ItemCallbacks[k].config = dec.decoder.config
                     /\ ItemCallbacks[k].error =
                          Error(FailureMessage(dec.decoder,
                                               out.raw.items[i]))
                /\ ValueOf(out.res) # dec.defaultValue
                /\ out.res.st = "return" =>
                     /\ out.res.val.t = "array"
                     /\ out.res.val.items[i] = Undefined
                /\ sets[dec.decoder.config].errorCallback = "throw" =>
                     out.res.st = "throw"
           ELSE /\ Len(Callbacks) = 0
                /\ out.res.st = "return"
                /\ out.res.val.t = "array"
                /\ out.res.val.items[i] = dec.decoder.defaultValue
  /\ (/\ dec.k = "decodeObject" /\ dec.hasDefault
      /\ Called /\ out.raw.t = "object") =>
       \A i \in 1..Len(dec.map) :
         LET f == dec.map[i].decoder
             prop == RawProp(dec.map[i].rawKey)
         IN (/\ HasOwnCheck(f) /\ OwnCheckFails(f, prop)
             /\ FieldReached(i)) =>
              IF ~f.hasDefault
              THEN /\ Len(FieldCallbacks(i)) = 1
                   /\ FieldCallbacks(i)[1].config = f.config
                   /\ FieldCallbacks(i)[1].error =
                        Error(FailureMessage(f, prop))
                   /\ ValueOf(out.res) # dec.defaultValue
                   /\ out.res.st = "return" =>
                        /\ out.res.val.t = "object"
                        /\ out.res.val.fields[dec.map[i].key] = Undefined
                   /\ sets[f.config].errorCallback = "throw" =>
                        out.res.st = "throw"
              ELSE /\ Len(FieldCallbacks(i)) = 0
                   /\ out.res.st = "return" =>
                        /\ out.res.val.t = "object"
                        /\ out.res.val.fields[dec.map[i].key] =
                             f.defaultValue

(***************************************************************************)
(* C24.  The array decoder calls the item decoder once per element with    *)
(* that element as its only argument: the argument list of the call for    *)
(* the element at an index is that element alone, with no index or array   *)
(* argument.                                                               *)
(***************************************************************************)
C24_ItemIsOnlyArgument ==
  (/\ dec.k = "decodeArray" /\ Called /\ IsArray(out.raw)
   /\ out.res.st = "return") =>
    LET itemCalls == SelectSeq(out.res.evs, IsItemCall)
    IN /\ Len(itemCalls) = Len(out.raw.items)
       /\ \A i \in 1..Len(itemCalls) :
            itemCalls[i].args = <<out.raw.items[i]>>

(***************************************************************************)
(* C25.  Within one object decode call on an object raw, each field        *)
(* decoder declared in the mapping is invoked exactly once, in the         *)
(* mapping's key iteration order, and for a fixed mapping this order is    *)
(* the same on every call.                                                 *)
(***************************************************************************)
\* the positions in the mapping of the field decoders the last call
\* invoked, in the order of their invocation
FieldOrder ==
  LET calls == SelectSeq(out.res.evs, IsStageCall)
  IN [k \in 1..Len(calls) |-> calls[k].path[1]]

C25_EveryFieldOnce ==
  (dec.k = "decodeObject" /\ Called /\ out.raw.t = "object") =>
    FieldOrder = [k \in 1..Len(dec.map) |-> k]

(***************************************************************************)
(* C25, amended.  Within one object decode call on an object raw, the      *)
(* field decoders are invoked in the mapping's key iteration order, each   *)
(* exactly once with the raw property it is mapped from, up to and         *)
(* including the first one whose call raises, whether the error callback   *)
(* raised the failure or the field decoder raised an error of its own,     *)
(* and none after it; the call returns exactly when no field decoder       *)
(* raises, and every field decoder of the mapping has then been invoked    *)
(* exactly once.  The order depends on the mapping alone, so it is the     *)
(* same on every call.                                                     *)
(***************************************************************************)
\* the last field the call reaches: the first whose call raises, or the
\* last of the mapping
LastField ==
  IF \E i \in 1..Len(dec.map) : FieldAlone(i).st = "throw"
  THEN CHOOSE i \in 1..Len(dec.map) :
         FieldAlone(i).st = "throw" /\ FieldReached(i)
  ELSE Len(dec.map)

C25_FieldsInMappingOrder ==
  (dec.k = "decodeObject" /\ Called /\ out.raw.t = "object") =>
    /\ FieldOrder = [k \in 1..LastField |-> k]
    /\ \A i \in 1..LastField :
         /\ Len(FieldCalls(i)) = 1
         /\ FieldCalls(i)[1].args = <<RawProp(dec.map[i].rawKey)>>
    /\ (out.res.st = "return") = (LastField = Len(dec.map)
                                    /\ \A i \in 1..Len(dec.map) :
                                         FieldAlone(i).st = "return")

C25_Witness ==
  /\ dec.k = "decodeObject" /\ Called /\ out.raw.t = "object"
  /\ Len(dec.map) = 2
  /\ FieldOrder = <<1, 2>>
  /\ Len(Callbacks) = 2
  /\ out.res.st = "return"

(***************************************************************************)
(* C26.  With an error callback that returns, array(strictItemDecoder)     *)
(* on an array raw invokes the callback exactly once for each invalid      *)
(* element and never for a valid one, in ascending index order, each       *)
(* invocation coming after the call of the item decoder on that element    *)
(* and before the call on the next element; the call then returns an       *)
(* array as long as raw with undefined at the invalid positions.           *)
(***************************************************************************)
\* the item decoder is a strict leaf decoder of a set whose callback returns
ReturningStrictItem ==
  /\ dec.decoder.k \in {"decode", "decodeLiteral"}
  /\ ~dec.decoder.hasDefault
  /\ sets[dec.decoder.config].errorCallback = "return"

\* the calls of the item decoder and the callback invocations, in order
ItemSteps ==
  LET IsStep(e) == e.path = <<1>> /\ e.op \in {"call", "errorCallback"}
  IN SelectSeq(out.res.evs, IsStep)

InvalidItems ==
  {i \in 1..Len(out.raw.items) :
     OwnCheckFails(dec.decoder, out.raw.items[i])}

C26_CallbackPerInvalidElement ==
  (/\ dec.k = "decodeArray" /\ Called /\ IsArray(out.raw)
   /\ ReturningStrictItem) =>
    LET n == Len(out.raw.items)
        itemCalls == SelectSeq(out.res.evs, IsItemCall)
    IN /\ Len(itemCalls) = n
       /\ \A i \in 1..n : /\ itemCalls[i].args[1] = out.raw.items[i]
                          /\ itemCalls[i].args[2] = Num(i - 1)
       /\ Len(Callbacks) = Cardinality(InvalidItems)
       /\ Len(ItemSteps) = n + Cardinality(InvalidItems)
       /\ \A k \in 1..Len(ItemSteps) :
            LET e == ItemSteps[k] IN
            IF e.op = "errorCallback"
            THEN /\ k > 1
                 /\ ItemSteps[k - 1].op = "call"
                 /\ OwnCheckFails(dec.decoder, ItemSteps[k - 1].args[1])
                 /\ e.config = dec.decoder.config
                 /\ e.error = Error(FailureMessage(dec.decoder,
                                                   ItemSteps[k - 1].args[1]))
            ELSE OwnCheckFails(dec.decoder, e.args[1]) =>
                   /\ k < Len(ItemSteps)
                   /\ ItemSteps[k + 1].op = "errorCallback"
       /\ out.res.st = "return"
       /\ out.res.val.t = "array"
       /\ Len(out.res.val.items) = n
       /\ \A i \in 1..n :
            (i \in InvalidItems) <=> (out.res.val.items[i] = Undefined)

(***************************************************************************)
(* C27.  When the error callback raises, a call of an array, object or     *)
(* pipe decoder stops at the first failing strict check: the invocation    *)
(* of the callback is the last thing the call does, so the array decoder   *)
(* passes no later element to the item decoder, the object decoder         *)
(* decodes no later field and the pipe runs no later stage; the callback   *)
(* is invoked exactly once in the whole call and the call raises the       *)
(* error, returning no partial result.                                     *)
(***************************************************************************)
IsComposite(d) == d.k \in {"decodeArray", "decodeObject", "pipeDecode"}

\* the first callback the last call invoked raises
FirstCallbackRaises ==
  /\ Len(Callbacks) >= 1
  /\ sets[Callbacks[1].config].errorCallback = "throw"

C27_RaisingCallbackStops ==
  (Called /\ IsComposite(dec) /\ FirstCallbackRaises) =>
    LET evs == out.res.evs
        calls == SelectSeq(evs, IsStageCall)
        m == Len(calls)
        failed == Callbacks[1]
    IN /\ Len(Callbacks) = 1
       /\ evs[Len(evs)] = failed
       /\ out.res.st = "throw"
       /\ out.res.err = failed.error
       /\ "val" \notin DOMAIN out.res
       /\ failed.path = <<>> => m = 0
       /\ failed.path # <<>> =>
            /\ m >= 1
            /\ calls[m].path[1] = Head(failed.path)
            /\ IF dec.k = "decodeArray"
               THEN /\ m <= Len(out.raw.items)
                    /\ \A k \in 1..m :
                         calls[k].args =
                           <<out.raw.items[k], Num(k - 1), out.raw>>
               ELSE \A k \in 1..m : calls[k].path = <<k>>
            /\ \A k \in 1..(m - 1) :
                 LET d == DecoderAt(dec, calls[k].path)
                 IN (HasOwnCheck(d) /\ ~d.hasDefault) =>
                      ~OwnCheckFails(d, calls[k].args[1])

C27_Witness ==
  /\ Called /\ dec.k = "pipeDecode" /\ Len(dec.allDecoders) = 3
  /\ FirstCallbackRaises
  /\ Callbacks[1].path = <<2>>
  /\ Len(SelectSeq(out.res.evs, IsStageCall)) = 2
  /\ out.res.st = "throw"

(***************************************************************************)
(* C28.  With an error callback that returns, a pipe does not stop at a    *)
(* failing stage: the undefined a failing strict stage returns is the raw  *)
(* input of the next stage, so the later stages run and one call of the    *)
(* pipe can invoke the callback more than once.                            *)
(* pipe(number(), string())('a') invokes it for the number stage and       *)
(* again for the string stage.                                             *)
(***************************************************************************)
StageCallbacks(i) ==
  LET IsStageCallback(e) == e.op = "errorCallback" /\ e.path = <<i>>
  IN SelectSeq(out.res.evs, IsStageCallback)

\* pipe(number(), string()) of sets whose callback returns
IsNumberStringPipe ==
  /\ dec.k = "pipeDecode" /\ Len(dec.allDecoders) = 2
  /\ dec.allDecoders[1].k = "decode" /\ dec.allDecoders[1].desc = "Number"
  /\ dec.allDecoders[2].k = "decode" /\ dec.allDecoders[2].desc = "String"
  /\ \A i \in 1..2 :
       /\ ~dec.allDecoders[i].hasDefault
       /\ sets[dec.allDecoders[i].config].errorCallback = "return"

C28_PipeContinuesAfterFailure ==
  /\ (dec.k = "pipeDecode" /\ Called) =>
       LET n == Len(dec.allDecoders) IN
       \A k \in 1..Len(StageCalls) :
         LET d == dec.allDecoders[k] IN
         (/\ HasOwnCheck(d) /\ ~d.hasDefault
          /\ OwnCheckFails(d, StageCalls[k].args[1])
          /\ sets[d.config].errorCallback = "return") =>
           /\ Len(StageCallbacks(k)) = 1
           /\ StageCallbacks(k)[1].error =
                Error(FailureMessage(d, StageCalls[k].args[1]))
           /\ k < n => /\ Len(StageCalls) > k
                       /\ StageCalls[k + 1].path = <<k + 1>>
                       /\ StageCalls[k + 1].args = <<Undefined>>
           /\ k = n => Returned(Undefined)
  /\ (IsNumberStringPipe /\ Called /\ out.raw = Str("a")) =>
       /\ Len(Callbacks) = 2
       /\ Callbacks[1].path = <<1>>
       /\ Callbacks[1].error.message =
            "Number Decoder: Expected raw value to be a number but got: a."
       /\ Callbacks[2].path = <<2>>
       /\ Callbacks[2].error.message =
            "String Decoder: Expected raw value to be a string "
              \o "but got: undefined."
       /\ Returned(Undefined)

(***************************************************************************)
(* C29.  A decoder reads the error callback from its Config object when a  *)
(* check fails, not when the decoder or its set is built: once the         *)
(* errorCallback of a Config passed to configure has been replaced, here   *)
(* by one that raises, a failure of a decoder built before the             *)
(* replacement invokes the new callback, so the call raises the error at   *)
(* that invocation, and never the old one, which would have let the call   *)
(* go on and return.                                                       *)
(***************************************************************************)
\* the callback of set s is not the one its Config was passed with
Replaced(s) == s > DefaultSet /\ sets[s].errorCallback = "throw"

C29_CallbackReadAtFailure ==
  Called =>
    /\ \A k \in 1..Len(Callbacks) :
         Replaced(Callbacks[k].config) =>
           /\ k = Len(Callbacks)
           /\ out.res.evs[Len(out.res.evs)] = Callbacks[k]
           /\ out.res.st = "throw"
           /\ out.res.err = Callbacks[k].error
    /\ (/\ HasOwnCheck(dec) /\ ~dec.hasDefault /\ Replaced(dec.config)
        /\ OwnCheckFails(dec, out.raw)) =>
         /\ Len(Callbacks) = 1
         /\ Callbacks[1].config = dec.config
         /\ Callbacks[1].error = Error(FailureMessage(dec, out.raw))
         /\ out.res.st = "throw"

C29_Witness ==
  /\ Called /\ dec.k = "decodeArray" /\ ~dec.hasDefault
  /\ Replaced(dec.config) /\ Len(sets) = 2
  /\ out.raw = Str("b")
  /\ Len(Callbacks) = 1
  /\ out.res.st = "throw"
  /\ out.res.err.message =
       "Array Decoder: Expected raw value to be an array but got: b."

(***************************************************************************)
(* C30.  A constructor called with more arguments than its defaulting      *)
(* form takes (two or more for a createDecoder constructor, three or more  *)
(* for array, object and literalOf) yields a strict decoder: on a raw      *)
(* value its check rejects it invokes the error callback, and when the     *)
(* callback returns it returns the value passed in the default position    *)
(* instead of undefined.                                                   *)
(***************************************************************************)
C30_ExtraArgumentsAreStrict ==
  \A rest \in ExtraArgs :
    (/\ HasOwnCheck(dec) /\ BuiltWith(rest)
     /\ Called /\ OwnCheckFails(dec, out.raw)) =>
      /\ ~dec.hasDefault
      /\ Len(Callbacks) = 1
      /\ Callbacks[1].config = dec.config
      /\ Callbacks[1].path = <<>>
      /\ Callbacks[1].error = Error(FailureMessage(dec, out.raw))
      /\ sets[dec.config].errorCallback = "return" => Returned(rest[1])
      /\ sets[dec.config].errorCallback = "throw" =>
           out.res.st = "throw" /\ out.res.err = Callbacks[1].error

====
